---- MODULE Spec2Model ----
(***************************************************************************)
(* Job orchestration of the survey runner: the MySQL-backed job store, the *)
(* worker's claim loop (src/src/worker/index.ts), the three handlers       *)
(* (src/src/worker/handlers), the run completion check, and the run        *)
(* actions that start, cancel and export a run.                            *)
(*                                                                         *)
(* Granularity: one action per awaited statement that reads or writes a    *)
(* job's or the run's status.  Synchronous code between two awaits runs    *)
(* without interruption in a Node process, and an await that touches       *)
(* neither status (the provider call, an insert of a response, an analysis *)
(* result or an audit event) commutes with every step of every other       *)
(* process: both are part of the action of the statement next to them.     *)
(*                                                                         *)
(* Fault model: the provider call and the inserts of follow-on rows (the   *)
(* analysis job, the audit event, the analysis result) may reject; reads   *)
(* and the updates of a job's or run's own row are taken to succeed.       *)
(***************************************************************************)
EXTENDS Integers, FiniteSets, Sequences, TLC

\* ------------------------------------------------------------------ bounds

\* Worker processes polling the same job store.
NumWorkers == 2
\* EXECUTE_QUESTION jobs allocated for the run (models x questions).
NumExecJobs == 2
\* EXECUTE_QUESTION rows the job store may hold.
NumExecRows == 3
\* Models selected for a run, and questions of a survey.
MaxModels == 2
MaxQuestions == 2
\* exportRunAction invocations.
MaxExports == 1
\* EXPORT_RUN rows the job store may hold.
NumExportJobs == 3
\* clampScore: the largest scale maximum, how far a score may lie outside
\* the scale, and the steps half a unit of score is divided into.
MaxScale == 3
ScoreMargin == 1
HalfSteps == 2
\* substituteVariables: the pieces of a template.
MaxPieces == 3
\* repairAndParseJson: the citations of a payload.
MaxCitations == 1

\* ------------------------------------------------------- program constants

EXECUTE_CONCURRENCY == 5
ANALYZE_CONCURRENCY == 10
EXPORT_CONCURRENCY == 2
AVG_INPUT_TOKENS_PER_QUESTION == 500
AVG_OUTPUT_TOKENS_PER_QUESTION == 1000

\* --------------------------------------------------------------- universes

Workers == 1..NumWorkers

\* Job rows.  Execution job j is created by startRunAction, its follow-on
\* analysis job by the handler of j, export jobs by exportRunAction.
ExecJobs == 1..NumExecRows
AnalyzeJobs == (NumExecRows + 1)..(2 * NumExecRows)
ExportJobs == (2 * NumExecRows + 1)..(2 * NumExecRows + NumExportJobs)
JobIds == ExecJobs \cup AnalyzeJobs \cup ExportJobs

AnalyzeJobOf(j) == NumExecRows + j
ExportJobId(n) == 2 * NumExecRows + n

JobTypes == <<"EXECUTE_QUESTION", "ANALYZE_RESPONSE", "EXPORT_RUN">>

jobType(j) ==
    IF j \in ExecJobs THEN "EXECUTE_QUESTION"
    ELSE IF j \in AnalyzeJobs THEN "ANALYZE_RESPONSE"
    ELSE "EXPORT_RUN"

JobStatus == {"PENDING", "RUNNING", "SUCCEEDED", "FAILED", "RETRYING", "CANCELLED"}
RunStatus == {"DRAFT", "QUEUED", "RUNNING", "COMPLETED", "FAILED", "CANCELLED"}
TerminalRunStatus == {"COMPLETED", "FAILED", "CANCELLED"}
TerminalJobStatus == {"SUCCEEDED", "FAILED", "CANCELLED"}

VARIABLES
    \* --- the run's questions, fixed when the run is started
    rankedNoReasoning, \* jobs of a ranked question with includeReasoning false
    threaded,       \* jobs of a THREADED question; they share one thread key
    \* --- the ConversationThread row of that thread key
    thread,         \* messagesJson, a sequence of <<role, job>>; <<>>: no row
    tread,          \* per job: existingThread as step 7 read it
    \* --- the database
    runStatus,      \* SurveyRun.status; "NONE" before the row exists
    jobStatus,      \* Job.status per row; "NONE" before the row exists
    attempt,        \* Job.attempt
    createdAt,      \* Job.createdAt, a logical clock value
    clock,          \* the clock createdAt is stamped from
    responses,      \* execution jobs that stored an LlmResponse
    allocated,      \* how many jobs allocateJobs yields (models x questions)
    lastError,      \* Job.lastError; "null" or the message, named by its cause
    rawText,        \* LlmResponse.rawText per execution job: the reply
    parsedJson,     \* LlmResponse.parsedJson: "object" or "JsonNull"
    \* --- each worker process
    activeJobs,     \* the process's in-memory set of tracking keys
    wpc,            \* position of the poll loop inside claimJob
    wsel,           \* pendingJob of the claimJob call in flight (0: none)
    \* --- each processJob call (one per claimed job)
    hpc,            \* position of the handler
    hphase,         \* "try" or "catch" block of the handler
    cFailed,        \* checkRunCompletion: failedJobs
    cTotal,         \* checkRunCompletion: totalJobs
    herr,           \* the error the handler threw, named by its cause
    \* --- the server actions
    spc,            \* startRunAction position
    kpc,            \* cancelRunAction position
    xpc,            \* exportRunAction position
    exports,        \* export jobs enqueued so far
    \* --- graceful shutdown, per worker process
    running,        \* the flag pollLoop tests at the top of each iteration
    shpc,           \* position of shutdown: run, wait, disconnect, exited
    expired,        \* Date.now() has reached shutdown's deadline
    wleft,          \* job types whose claimJob call of the iteration that
                    \* was under way at the signal is still to come
    \* --- allocateJobs: what a call is given and loads, and what calls return
    modelTargetIds,    \* params.modelTargetIds
    questions,         \* question.findMany of the survey, orderBy order asc
    surveyVariables,   \* variable.findMany of the survey: key -> defaultValue
    variableOverrides, \* params.variableOverrides: key -> value
    allocation,        \* the jobs each of two independent calls returned
    called,            \* the calls that have returned
    \* --- startRunAction: the estimate and the limits
    modelTargets,   \* the ModelTarget rows: id -> exists, token prices
    maxTokens,      \* getMaxTokensPerRun()
    maxCostUsd,     \* getMaxCostPerRunUsd()
    estimate,       \* what estimateRun returned
    runModels,      \* RunModel rows of the run
    \* --- library functions: the arguments of a call and what it returned
    clampIn,        \* clampScore: score, min, max
    clampOut,       \* clampScore: the value returned
    substIn,        \* substituteVariables: template, variables
    substOut,       \* substituteVariables: result, unresolved
    repairIn,       \* repairAndParseJson: raw
    repairOut,      \* repairAndParseJson: the RepairResult
    \* --- the progress stream of a run (GET /api/runs/[runId]/events)
    snapshot,       \* the counts one poll iteration has read so far
    sent,           \* the message list each job sent to the provider
    \* --- history, read by the properties only
    arbiterWrites   \* surveyRun.update calls made by checkRunCompletion

dbVars == <<runStatus, jobStatus, attempt, createdAt, clock, responses,
           allocated>>
workerVars == <<activeJobs, wpc, wsel>>
handlerVars == <<hpc, hphase, cFailed, cTotal>>
actionVars == <<spc, kpc, xpc, exports>>
historyVars == <<arbiterWrites>>
noteVars == <<lastError, rawText, parsedJson, herr>>
inputVars == <<rankedNoReasoning, threaded>>
threadVars == <<thread, tread>>
shutVars == <<running, shpc, expired, wleft>>
estVars == <<modelTargets, maxTokens, maxCostUsd, estimate, runModels>>
allocVars == <<modelTargetIds, questions, surveyVariables, variableOverrides,
              allocation, called>>
libVars == <<clampIn, clampOut, substIn, substOut, repairIn, repairOut>>
viewVars == <<snapshot, sent>>
vars == <<dbVars, workerVars, handlerVars, actionVars, historyVars, noteVars,
          inputVars, threadVars, shutVars, allocVars, estVars, libVars,
          viewVars>>

\* ------------------------------------------------- allocation universes

\* Identifiers and keys are strings: sequences of characters.  Run, model
\* and question ids are database ids of one fixed length.
RunId == <<"r">>
ModelIds == {<<"a">>, <<"b">>}
QuestionIds == {<<"p">>, <<"q">>}
\* Question.threadKey as the survey form stores it: free text, or nothing.
\* <<>> stands for null and for the empty string, which || treats alike.
DeclaredThreadKeys == {<<>>, <<"g">>, <<"p">>}
QuestionModes == {"STATELESS", "THREADED"}
VariableKeys == {"a"}
\* A template is a sequence of pieces: text, or a {{key}} placeholder.
Text(str) == [ph |-> FALSE, s |-> str]
Placeholder(key) == [ph |-> TRUE, s |-> key]
Templates == {<<Text("Hi")>>, <<Text("Hi"), Placeholder("a")>>}
QuestionRows ==
    [id : QuestionIds, order : 0..(MaxQuestions - 1), mode : QuestionModes,
     threadKey : DeclaredThreadKeys, promptTemplate : Templates]
\* What question.findMany with orderBy order asc can return: rows with
\* distinct ids, in ascending order, rows of equal order either way round.
QuestionLists ==
    {qs \in UNION {[1..n -> QuestionRows] : n \in 1..MaxQuestions} :
        /\ \A i, k \in 1..Len(qs) : i # k => qs[i].id # qs[k].id
        /\ \A i, k \in 1..Len(qs) : i < k => qs[i].order <= qs[k].order}
\* params.modelTargetIds: a non-empty array of ids, nothing more is tested.
ModelLists == UNION {[1..n -> ModelIds] : n \in 1..MaxModels}
Calls == {1, 2}

\* Token prices of a model, in cents per million tokens.  Costs are in
\* millionths of a cent: tokens times cents per million tokens, which is
\* the division by 1_000_000 of calculateModelCostUsd.
Prices == {[in |-> 15, out |-> 60], [in |-> 300, out |-> 1500]}
ModelTargetRows ==
    [ModelIds -> {[exists |-> FALSE, in |-> 0, out |-> 0]}
                 \cup {[exists |-> TRUE, in |-> pr.in, out |-> pr.out] :
                          pr \in Prices}]
\* The result of estimateRun before the call.
NoEstimate ==
    [totalQuestions |-> 0, totalModels |-> 0, totalJobs |-> 0,
     estimatedInputTokens |-> 0, estimatedOutputTokens |-> 0,
     estimatedTotalTokens |-> 0, estimatedCostUsd |-> 0, perModel |-> <<>>]

\* No submission is under study: the limit test has been passed.
EstIdle ==
    /\ modelTargets = [m \in ModelIds |-> [exists |-> FALSE, in |-> 0, out |-> 0]]
    /\ maxTokens = 0
    /\ maxCostUsd = 0
    /\ estimate = NoEstimate
    /\ runModels = 0

\* repairAndParseJson is called on the clean text of a payload and on the
\* wrapped text of the same payload.
RepairCalls == {"clean", "wrapped"}
NotCalled == [parsed |-> <<>>, error |-> "not called"]

\* No library call is under study.
ClampIdle ==
    /\ clampIn = [score |-> 0, min |-> 0, max |-> 0]
    /\ clampOut = [done |-> TRUE, value |-> 0]
SubstIdle ==
    /\ substIn = [parts |-> <<>>, variables |-> <<>>]
    /\ substOut = [done |-> TRUE, result |-> <<>>, unresolved |-> <<>>]
RepairIdle ==
    /\ repairIn = <<>>
    /\ repairOut = [c \in RepairCalls |-> NotCalled]
LibIdle == ClampIdle /\ SubstIdle /\ RepairIdle

\* No progress stream is open.
NoEvent == [status |-> "NONE", total |-> 0, completed |-> 0, failed |-> 0,
            running |-> 0]
NoStream == [pc |-> "closed", read |-> {}, event |-> NoEvent]
ViewIdle ==
    /\ snapshot = NoStream
    /\ sent = [j \in JobIds |-> <<>>]

\* No allocation is under study.
AllocIdle ==
    /\ modelTargetIds = <<>>
    /\ questions = <<>>
    /\ surveyVariables = [k \in VariableKeys |-> "absent"]
    /\ variableOverrides = [k \in VariableKeys |-> "absent"]
    /\ allocation = [c \in Calls |-> <<>>]
    /\ called = {}

\* ------------------------------------------------------------------- Init

InitSystem ==
    /\ runStatus = "NONE"
    /\ jobStatus = [j \in JobIds |-> "NONE"]
    /\ attempt = [j \in JobIds |-> 0]
    /\ createdAt = [j \in JobIds |-> 0]
    /\ clock = 0
    /\ responses = {}
    /\ allocated \in 1..NumExecJobs
    /\ rankedNoReasoning \in SUBSET (1..allocated)
    /\ threaded \in SUBSET (1..allocated)
    /\ thread = <<>>
    /\ tread = [j \in JobIds |-> <<>>]
    /\ activeJobs = [w \in Workers |-> {}]
    /\ wpc = [w \in Workers |-> "select"]
    /\ wsel = [w \in Workers |-> 0]
    /\ hpc = [j \in JobIds |-> "idle"]
    /\ hphase = [j \in JobIds |-> "try"]
    /\ cFailed = [j \in JobIds |-> 0]
    /\ cTotal = [j \in JobIds |-> 0]
    /\ spc = "create"
    /\ kpc = "idle"
    /\ xpc = "idle"
    /\ exports = 0
    /\ arbiterWrites = 0
    /\ lastError = [j \in JobIds |-> "null"]
    /\ rawText = [j \in JobIds |-> "none"]
    /\ parsedJson = [j \in JobIds |-> "none"]
    /\ herr = [j \in JobIds |-> "none"]
    /\ running = [w \in Workers |-> TRUE]
    /\ shpc = [w \in Workers |-> "run"]
    /\ expired = [w \in Workers |-> FALSE]
    /\ wleft = [w \in Workers |-> {}]
    /\ AllocIdle
    /\ EstIdle
    /\ ViewIdle

Init == InitSystem /\ LibIdle

\* ------------------------------------------------------- the claim loop

\* trackingKey of processJob: `${job.type}:${job.id}`.
TrackingKey(j) == <<jobType(j), j>>

\* A cap no worker reaches.
MaxActiveUnbounded(type) == Cardinality(JobIds) + 1

\* maxActive as pollLoop passes it for each type.
MaxActive(type) ==
    IF type = "EXECUTE_QUESTION" THEN EXECUTE_CONCURRENCY
    ELSE IF type = "ANALYZE_RESPONSE" THEN ANALYZE_CONCURRENCY
    ELSE EXPORT_CONCURRENCY

\* activeOfType: the tracking keys that start with the type.
ActiveOfType(w, type) == Cardinality({k \in activeJobs[w] : k[1] = type})

\* `id: { notIn: [...activeJobs] }`: the set holds tracking keys "TYPE:id",
\* the column holds bare ids, so a row is excluded only by a key that is
\* equal to its id as a string, which no tracking key is.
KeyEqualsId(k, j) == k = <<j>>
NotInActive(w, j) == \A k \in activeJobs[w] : ~KeyEqualsId(k, j)

\* The rows findFirst matches, and those with the least createdAt among them
\* (rows created by one transaction share it; the store returns any of them).
PendingOfType(w, type) ==
    {j \in JobIds : /\ jobType(j) = type
                    /\ jobStatus[j] = "PENDING"
                    /\ NotInActive(w, j)}
Oldest(S) == {j \in S : \A k \in S : createdAt[j] <= createdAt[k]}

\* pollLoop calls claimJob for the types in the order of JobTypes in each
\* iteration.
TypeIndex(type) == CHOOSE i \in 1..Len(JobTypes) : JobTypes[i] = type
\* The types pollLoop still calls claimJob for after the call for a type.
LaterTypes(type) ==
    {JobTypes[i] : i \in (TypeIndex(type) + 1)..Len(JobTypes)}

\* claimJob up to its first statement: the cap check, then findFirst.
\* pollLoop calls claimJob for the three types in turn, for ever, and a call
\* that returns null here changes nothing: the loop is at an arbitrary type
\* when a job turns PENDING, so the call's type is any of the three.
ClaimSelect(w, type) ==
    /\ wpc[w] = "select"
    /\ running[w] \/ type \in wleft[w]
    /\ ActiveOfType(w, type) < MaxActive(type)
    /\ \E j \in Oldest(PendingOfType(w, type)) : wsel' = [wsel EXCEPT ![w] = j]
    /\ wpc' = [wpc EXCEPT ![w] = "update"]
    /\ UNCHANGED <<dbVars, activeJobs, handlerVars, actionVars, historyVars>>
    /\ UNCHANGED noteVars
    /\ UNCHANGED inputVars
    /\ UNCHANGED threadVars
    /\ wleft' = IF running[w] THEN wleft
                ELSE [wleft EXCEPT ![w] = LaterTypes(type)]
    /\ UNCHANGED <<running, shpc, expired>>
    /\ UNCHANGED allocVars
    /\ UNCHANGED estVars
    /\ UNCHANGED libVars
    /\ UNCHANGED viewVars

\* The update without its status test.
ClaimGuardAny(j) == jobStatus[j] \in JobStatus

\* The where clause of the conditional updateMany.
ClaimGuard(j) == jobStatus[j] = "PENDING"

\* claimJob's updateMany: RUNNING and attempt + 1 where the row is PENDING;
\* a count of 0 returns null to pollLoop.
ClaimUpdate(w) ==
    /\ wpc[w] = "update"
    /\ LET j == wsel[w]
       IN IF ClaimGuard(j)
          THEN /\ jobStatus' = [jobStatus EXCEPT ![j] = "RUNNING"]
               /\ attempt' = [attempt EXCEPT ![j] = @ + 1]
               /\ wpc' = [wpc EXCEPT ![w] = "refetch"]
               /\ UNCHANGED wsel
          ELSE /\ wpc' = [wpc EXCEPT ![w] = "select"]
               /\ wsel' = [wsel EXCEPT ![w] = 0]
               /\ UNCHANGED <<jobStatus, attempt, allocated>>
    /\ UNCHANGED <<runStatus, createdAt, clock, responses, allocated, activeJobs,
                   handlerVars, actionVars, historyVars>>
    /\ UNCHANGED noteVars
    /\ UNCHANGED inputVars
    /\ UNCHANGED threadVars
    /\ UNCHANGED shutVars
    /\ UNCHANGED allocVars
    /\ UNCHANGED estVars
    /\ UNCHANGED libVars
    /\ UNCHANGED viewVars

\* The first position of the handler processJob dispatches to.
FirstStep(j) ==
    IF jobType(j) = "EXECUTE_QUESTION" THEN "e_run"
    ELSE IF jobType(j) = "ANALYZE_RESPONSE" THEN "a_run"
    ELSE "x_run"

\* claimJob's findUnique returns the job; pollLoop starts processJob without
\* awaiting it: the tracking key is added and the handler is entered.
ClaimRefetch(w) ==
    /\ wpc[w] = "refetch"
    /\ LET j == wsel[w]
       IN /\ activeJobs' = [activeJobs EXCEPT ![w] = @ \cup {TrackingKey(j)}]
          /\ hpc' = [hpc EXCEPT ![j] = FirstStep(j)]
          /\ hphase' = [hphase EXCEPT ![j] = "try"]
    /\ wpc' = [wpc EXCEPT ![w] = "select"]
    /\ wsel' = [wsel EXCEPT ![w] = 0]
    /\ UNCHANGED <<dbVars, cFailed, cTotal, actionVars, historyVars>>
    /\ UNCHANGED noteVars
    /\ UNCHANGED inputVars
    /\ UNCHANGED threadVars
    /\ UNCHANGED shutVars
    /\ UNCHANGED allocVars
    /\ UNCHANGED estVars
    /\ UNCHANGED libVars
    /\ UNCHANGED viewVars

\* ------------------------------------------------------------ processJob

\* processJob's finally block: activeJobs.delete(trackingKey), in the
\* process that holds the key.
Release(j) == [w \in Workers |-> activeJobs[w] \ {TrackingKey(j)}]

\* The handler returned: processJob falls through to its finally block.
HandlerReturns(j) ==
    /\ hpc' = [hpc EXCEPT ![j] = "done"]
    /\ activeJobs' = Release(j)

\* The handler threw: processJob's catch block is entered.
HandlerThrows(j) ==
    /\ hpc' = [hpc EXCEPT ![j] = "pj_catch"]
    /\ UNCHANGED activeJobs

\* A catch block that puts the job back in the queue.
ProcessJobCatchRequeue(j) == "PENDING"

\* The data of processJob's catch-block update of the job row.
ProcessJobCatchStatus(j) == "FAILED"

\* processJob's catch block: job.update to FAILED by id, then finally.
ProcessJobCatch(j) ==
    /\ hpc[j] = "pj_catch"
    /\ jobStatus' = [jobStatus EXCEPT ![j] = ProcessJobCatchStatus(j)]
    /\ HandlerReturns(j)
    /\ UNCHANGED <<runStatus, attempt, createdAt, clock, responses, allocated, wpc, wsel,
                   hphase, cFailed, cTotal, actionVars, historyVars>>
    /\ lastError' = [lastError EXCEPT ![j] = herr[j]]
    /\ UNCHANGED <<rawText, parsedJson, herr>>
    /\ UNCHANGED inputVars
    /\ UNCHANGED threadVars
    /\ UNCHANGED shutVars
    /\ UNCHANGED allocVars
    /\ UNCHANGED estVars
    /\ UNCHANGED libVars
    /\ UNCHANGED viewVars

\* ----------------------------------------------------- checkRunCompletion

\* The open statuses without RUNNING.
OpenJobStatusNotStarted == {"PENDING", "RETRYING"}

\* The statuses of checkRunCompletion's first count.
OpenJobStatus == {"PENDING", "RUNNING", "RETRYING"}

\* job.count where runId, type EXECUTE_QUESTION and status in the given set.
CountExec(statuses) == Cardinality({k \in ExecJobs : jobStatus[k] \in statuses})

\* checkRunCompletion returned.  In the handler's try block (step 10) the
\* handler returns; in its catch block the handler rethrows its error.
CheckReturns(j) ==
    /\ IF hphase[j] = "try" THEN HandlerReturns(j) ELSE HandlerThrows(j)
    /\ cFailed' = [cFailed EXCEPT ![j] = 0]
    /\ cTotal' = [cTotal EXCEPT ![j] = 0]

\* checkRunCompletion threw.  In the try block the handler's catch block is
\* entered; in the catch block the throw is swallowed and the handler
\* rethrows its error.
CheckThrows(j) ==
    /\ IF hphase[j] = "try"
       THEN /\ hpc' = [hpc EXCEPT ![j] = "e_catch"]
            /\ herr' = [herr EXCEPT ![j] = "audit"]
            /\ UNCHANGED activeJobs
       ELSE HandlerThrows(j) /\ UNCHANGED herr
    /\ cFailed' = [cFailed EXCEPT ![j] = 0]
    /\ cTotal' = [cTotal EXCEPT ![j] = 0]

\* incompleteJobs; the check returns when any is left.
CheckIncomplete(j) ==
    /\ hpc[j] = "chk_incomplete"
    /\ IF CountExec(OpenJobStatus) > 0
       THEN CheckReturns(j)
       ELSE /\ hpc' = [hpc EXCEPT ![j] = "chk_counts"]
            /\ UNCHANGED <<activeJobs, cFailed, cTotal>>
    /\ UNCHANGED <<dbVars, wpc, wsel, hphase, actionVars, historyVars>>
    /\ UNCHANGED noteVars
    /\ UNCHANGED inputVars
    /\ UNCHANGED threadVars
    /\ UNCHANGED shutVars
    /\ UNCHANGED allocVars
    /\ UNCHANGED estVars
    /\ UNCHANGED libVars
    /\ UNCHANGED viewVars

\* failedJobs, then totalJobs.  The second count reads what no statement
\* changes once the run's jobs exist, so the two reads are one step.
CheckCounts(j) ==
    /\ hpc[j] = "chk_counts"
    /\ cFailed' = [cFailed EXCEPT ![j] = CountExec({"FAILED"})]
    /\ cTotal' = [cTotal EXCEPT ![j] = CountExec(JobStatus)]
    /\ hpc' = [hpc EXCEPT ![j] = "chk_run"]
    /\ UNCHANGED <<dbVars, workerVars, hphase, actionVars, historyVars>>
    /\ UNCHANGED noteVars
    /\ UNCHANGED inputVars
    /\ UNCHANGED threadVars
    /\ UNCHANGED shutVars
    /\ UNCHANGED allocVars
    /\ UNCHANGED estVars
    /\ UNCHANGED libVars
    /\ UNCHANGED viewVars

\* The status test on the run row that was read.
MayResolve(status) == status = "RUNNING" \/ status = "QUEUED"

\* surveyRun.findUnique and the status test.
CheckRun(j) ==
    /\ hpc[j] = "chk_run"
    /\ IF runStatus = "NONE" \/ ~MayResolve(runStatus)
       THEN CheckReturns(j)
       ELSE /\ hpc' = [hpc EXCEPT ![j] = "chk_write"]
            /\ UNCHANGED <<activeJobs, cFailed, cTotal>>
    /\ UNCHANGED <<dbVars, wpc, wsel, hphase, actionVars, historyVars>>
    /\ UNCHANGED noteVars
    /\ UNCHANGED inputVars
    /\ UNCHANGED threadVars
    /\ UNCHANGED shutVars
    /\ UNCHANGED allocVars
    /\ UNCHANGED estVars
    /\ UNCHANGED libVars
    /\ UNCHANGED viewVars

\* newStatus from the two counts.
NewStatus(failedJobs, totalJobs) ==
    IF failedJobs = totalJobs THEN "FAILED" ELSE "COMPLETED"

\* surveyRun.update by id: status and completedAt; then createAuditEvent,
\* an insert that succeeds (the check returns) or rejects (it throws).
CheckWrite(j) ==
    /\ hpc[j] = "chk_write"
    /\ runStatus' = NewStatus(cFailed[j], cTotal[j])
    /\ arbiterWrites' = arbiterWrites + 1
    /\ \/ CheckReturns(j) /\ UNCHANGED herr
       \/ CheckThrows(j)
    /\ UNCHANGED <<jobStatus, attempt, createdAt, clock, responses, allocated, wpc, wsel,
                   hphase, actionVars>>
    /\ UNCHANGED <<lastError, rawText, parsedJson>>
    /\ UNCHANGED inputVars
    /\ UNCHANGED threadVars
    /\ UNCHANGED shutVars
    /\ UNCHANGED allocVars
    /\ UNCHANGED estVars
    /\ UNCHANGED libVars
    /\ UNCHANGED viewVars

\* ------------------------------------------------- handleExecuteQuestion

\* What the provider may reply: "valid" is a text that is, or is repaired
\* into, JSON of the response schema; "broken" is any other text.
Replies == {"valid", "broken"}

\* repairAndParseJson: the parsed payload, or null and an error message.
repairAndParseJson(raw) ==
    IF raw = "valid"
    THEN [parsed |-> "payload", error |-> "null"]
    ELSE [parsed |-> "null", error |-> "parse"]

\* Steps 1 to 8 with a provider call that returns: the model target is
\* loaded, the provider called, the LlmResponse created and the job updated
\* to SUCCEEDED by id.
ExecSucceed(j) ==
    /\ hpc[j] = "e_run"
    /\ j \notin threaded
    /\ responses' = responses \cup {j}
    /\ \E reply \in Replies :
          /\ rawText' = [rawText EXCEPT ![j] = reply]
          /\ parsedJson' = [parsedJson EXCEPT ![j] =
                              IF repairAndParseJson(reply).parsed = "null"
                              THEN "JsonNull" ELSE "object"]
          /\ lastError' = [lastError EXCEPT ![j] = repairAndParseJson(reply).error]
    /\ UNCHANGED herr
    /\ jobStatus' = [jobStatus EXCEPT ![j] = "SUCCEEDED"]
    /\ hpc' = [hpc EXCEPT ![j] = "e_enqueue"]
    /\ UNCHANGED <<runStatus, attempt, allocated, createdAt, clock, workerVars,
                   hphase, cFailed, cTotal, actionVars, historyVars>>
    /\ UNCHANGED inputVars
    /\ UNCHANGED threadVars
    /\ UNCHANGED shutVars
    /\ UNCHANGED allocVars
    /\ UNCHANGED estVars
    /\ UNCHANGED libVars
    /\ UNCHANGED viewVars

\* The two messages step 7 adds for job j: the user prompt, then the reply.
NewMessages(j) == << <<"user", j>>, <<"assistant", j>> >>

\* Step 2: the messages of the thread row, if there is one, then the user
\* message of this job (the system message, the same in every request, is
\* left out).
Messages(j, existingThread) == existingThread \o << <<"user", j>> >>

\* THREADED mode, steps 1 to 6 with a provider call that returns: the
\* thread is read for the prompt, the provider called, the reply parsed and
\* the LlmResponse created.
ExecRespond(j) ==
    /\ hpc[j] = "e_run"
    /\ j \in threaded
    /\ responses' = responses \cup {j}
    /\ \E reply \in Replies :
          /\ rawText' = [rawText EXCEPT ![j] = reply]
          /\ parsedJson' = [parsedJson EXCEPT ![j] =
                              IF repairAndParseJson(reply).parsed = "null"
                              THEN "JsonNull" ELSE "object"]
    /\ hpc' = [hpc EXCEPT ![j] = "e_thread"]
    /\ UNCHANGED <<runStatus, jobStatus, attempt, allocated, createdAt, clock,
                   workerVars, hphase, cFailed, cTotal, actionVars, historyVars,
                   lastError, herr, inputVars, threadVars, shutVars>>
    /\ UNCHANGED allocVars
    /\ UNCHANGED estVars
    /\ UNCHANGED libVars
    /\ sent' = [sent EXCEPT ![j] = Messages(j, thread)]
    /\ UNCHANGED snapshot

\* Step 7, conversationThread.findUnique by (run, model, thread key).
ExecThreadRead(j) ==
    /\ hpc[j] = "e_thread"
    /\ tread' = [tread EXCEPT ![j] = thread]
    /\ hpc' = [hpc EXCEPT ![j] = "e_upsert"]
    /\ UNCHANGED <<dbVars, workerVars, hphase, cFailed, cTotal, actionVars,
                   historyVars, noteVars, inputVars, thread, shutVars>>
    /\ UNCHANGED allocVars
    /\ UNCHANGED estVars
    /\ UNCHANGED libVars
    /\ UNCHANGED viewVars

\* Step 7, the write.  A row was read: update by id with the messages read
\* plus the two new ones.  No row was read: create, which the unique key
\* (run, model, thread key) of findUnique rejects when a row exists by now.
ExecThreadWrite(j) ==
    /\ hpc[j] = "e_upsert"
    /\ IF tread[j] # <<>>
       THEN /\ thread' = tread[j] \o NewMessages(j)
            /\ hpc' = [hpc EXCEPT ![j] = "e_mark"]
            /\ UNCHANGED herr
       ELSE IF thread = <<>>
       THEN /\ thread' = NewMessages(j)
            /\ hpc' = [hpc EXCEPT ![j] = "e_mark"]
            /\ UNCHANGED herr
       ELSE /\ hpc' = [hpc EXCEPT ![j] = "e_catch"]
            /\ herr' = [herr EXCEPT ![j] = "thread"]
            /\ UNCHANGED thread
    /\ UNCHANGED <<dbVars, workerVars, hphase, cFailed, cTotal, actionVars,
                   historyVars, lastError, rawText, parsedJson, inputVars, tread,
                   shutVars>>
    /\ UNCHANGED allocVars
    /\ UNCHANGED estVars
    /\ UNCHANGED libVars
    /\ UNCHANGED viewVars

\* THREADED mode, step 8: job.update by id to SUCCEEDED, lastError the
\* parse error or null.
ExecMark(j) ==
    /\ hpc[j] = "e_mark"
    /\ jobStatus' = [jobStatus EXCEPT ![j] = "SUCCEEDED"]
    /\ lastError' = [lastError EXCEPT ![j] = repairAndParseJson(rawText[j]).error]
    /\ hpc' = [hpc EXCEPT ![j] = "e_enqueue"]
    /\ UNCHANGED <<runStatus, attempt, allocated, createdAt, clock, responses,
                   workerVars, hphase, cFailed, cTotal, actionVars, historyVars,
                   rawText, parsedJson, herr, inputVars, threadVars, shutVars>>
    /\ UNCHANGED allocVars
    /\ UNCHANGED estVars
    /\ UNCHANGED libVars
    /\ UNCHANGED viewVars

\* A provider failure that leaves an LlmResponse behind.
ExecProviderFailsStored(j) ==
    /\ hpc[j] = "e_run"
    /\ hpc' = [hpc EXCEPT ![j] = "e_catch"]
    /\ responses' = responses \cup {j}
    /\ herr' = [herr EXCEPT ![j] = "provider"]
    /\ UNCHANGED <<runStatus, jobStatus, attempt, createdAt, clock, allocated,
                   workerVars, hphase, cFailed, cTotal, actionVars, historyVars,
                   lastError, rawText, parsedJson>>
    /\ UNCHANGED inputVars
    /\ UNCHANGED threadVars
    /\ UNCHANGED shutVars
    /\ UNCHANGED allocVars
    /\ UNCHANGED estVars
    /\ UNCHANGED libVars
    /\ UNCHANGED viewVars

\* Steps 1 to 3 with a provider call that throws: the catch block is entered.
ExecProviderFails(j) ==
    /\ hpc[j] = "e_run"
    /\ hpc' = [hpc EXCEPT ![j] = "e_catch"]
    /\ UNCHANGED <<dbVars, workerVars, hphase, cFailed, cTotal, actionVars,
                   historyVars>>
    /\ herr' = [herr EXCEPT ![j] = "provider"]
    /\ UNCHANGED <<lastError, rawText, parsedJson>>
    /\ UNCHANGED inputVars
    /\ UNCHANGED threadVars
    /\ UNCHANGED shutVars
    /\ UNCHANGED allocVars
    /\ UNCHANGED estVars
    /\ UNCHANGED libVars
    /\ UNCHANGED viewVars

\* Step 9: enqueueAnalyzeJob inserts the PENDING analysis job, or rejects.
ExecEnqueue(j) ==
    /\ hpc[j] = "e_enqueue"
    /\ \/ /\ jobStatus' = [jobStatus EXCEPT ![AnalyzeJobOf(j)] = "PENDING"]
          /\ createdAt' = [createdAt EXCEPT ![AnalyzeJobOf(j)] = clock + 1]
          /\ clock' = clock + 1
          /\ hpc' = [hpc EXCEPT ![j] = "chk_incomplete"]
          /\ UNCHANGED herr
       \/ /\ hpc' = [hpc EXCEPT ![j] = "e_catch"]
          /\ herr' = [herr EXCEPT ![j] = "enqueue"]
          /\ UNCHANGED <<jobStatus, createdAt, clock>>
    /\ UNCHANGED <<runStatus, attempt, responses, allocated, workerVars, hphase, cFailed,
                   cTotal, actionVars, historyVars>>
    /\ UNCHANGED <<lastError, rawText, parsedJson>>
    /\ UNCHANGED inputVars
    /\ UNCHANGED threadVars
    /\ UNCHANGED shutVars
    /\ UNCHANGED allocVars
    /\ UNCHANGED estVars
    /\ UNCHANGED libVars
    /\ UNCHANGED viewVars

\* The catch block: job.update to FAILED by id, then checkRunCompletion.
ExecCatch(j) ==
    /\ hpc[j] = "e_catch"
    /\ jobStatus' = [jobStatus EXCEPT ![j] = "FAILED"]
    /\ hphase' = [hphase EXCEPT ![j] = "catch"]
    /\ hpc' = [hpc EXCEPT ![j] = "chk_incomplete"]
    /\ UNCHANGED <<runStatus, attempt, createdAt, clock, responses, allocated, workerVars,
                   cFailed, cTotal, actionVars, historyVars>>
    /\ lastError' = [lastError EXCEPT ![j] = herr[j]]
    /\ UNCHANGED <<rawText, parsedJson, herr>>
    /\ UNCHANGED inputVars
    /\ UNCHANGED threadVars
    /\ UNCHANGED shutVars
    /\ UNCHANGED allocVars
    /\ UNCHANGED estVars
    /\ UNCHANGED libVars
    /\ UNCHANGED viewVars

\* ------------------------------------------------- handleAnalyzeResponse

\* The response is loaded, the analysis result created where there is a
\* response, and markJobSucceeded updates the job to SUCCEEDED by id.
AnalyzeSucceed(j) ==
    /\ hpc[j] = "a_run"
    /\ jobStatus' = [jobStatus EXCEPT ![j] = "SUCCEEDED"]
    /\ HandlerReturns(j)
    /\ UNCHANGED <<runStatus, attempt, createdAt, clock, responses, allocated, wpc, wsel,
                   hphase, cFailed, cTotal, actionVars, historyVars>>
    /\ UNCHANGED noteVars
    /\ UNCHANGED inputVars
    /\ UNCHANGED threadVars
    /\ UNCHANGED shutVars
    /\ UNCHANGED allocVars
    /\ UNCHANGED estVars
    /\ UNCHANGED libVars
    /\ UNCHANGED viewVars

\* analysisResult.create rejects: the catch block updates the job to FAILED
\* by id and rethrows.
AnalyzeCatch(j) ==
    /\ hpc[j] = "a_run"
    /\ (j - NumExecRows) \in responses
    /\ jobStatus' = [jobStatus EXCEPT ![j] = "FAILED"]
    /\ hphase' = [hphase EXCEPT ![j] = "catch"]
    /\ HandlerThrows(j)
    /\ UNCHANGED <<runStatus, attempt, createdAt, clock, responses, allocated, wpc, wsel,
                   cFailed, cTotal, actionVars, historyVars>>
    /\ herr' = [herr EXCEPT ![j] = "analysis"]
    /\ lastError' = [lastError EXCEPT ![j] = "analysis"]
    /\ UNCHANGED <<rawText, parsedJson>>
    /\ UNCHANGED inputVars
    /\ UNCHANGED threadVars
    /\ UNCHANGED shutVars
    /\ UNCHANGED allocVars
    /\ UNCHANGED estVars
    /\ UNCHANGED libVars
    /\ UNCHANGED viewVars

\* ------------------------------------------------------- handleExportRun

\* The run and its responses are read and the CSV rendered; then
\* createAuditEvent.  The handler returns (at once when the run is missing),
\* having written nothing to its job row, or the insert rejects and the
\* handler throws.
ExportRun(j) ==
    /\ hpc[j] = "x_run"
    /\ \/ HandlerReturns(j) /\ UNCHANGED herr
       \/ /\ runStatus # "NONE"
          /\ HandlerThrows(j)
          /\ herr' = [herr EXCEPT ![j] = "export"]
    /\ UNCHANGED <<dbVars, wpc, wsel, hphase, cFailed, cTotal, actionVars,
                   historyVars>>
    /\ UNCHANGED <<lastError, rawText, parsedJson>>
    /\ UNCHANGED inputVars
    /\ UNCHANGED threadVars
    /\ UNCHANGED shutVars
    /\ UNCHANGED allocVars
    /\ UNCHANGED estVars
    /\ UNCHANGED libVars
    /\ UNCHANGED viewVars

\* ------------------------------------------------------------ estimateRun

\* The ModelTarget rows in the order of their ids.
ModelIndex == << <<"a">>, <<"b">> >>

\* modelTarget.findMany where id in modelTargetIds: the rows that exist
\* among the ids given, each once.
FindMany(ids, rows) ==
    SelectSeq(ModelIndex,
              LAMBDA m : rows[m].exists /\ \E i \in 1..Len(ids) : ids[i] = m)

\* A cost that leaves the output tokens out.
calculateModelCostInputOnly(inputTokens, outputTokens, inCost, outCost) ==
    inputTokens * inCost

\* Tokens times the price of a million tokens, divided by 1_000_000, for
\* the input and for the output.
calculateModelCostUsd(inputTokens, outputTokens, inCost, outCost) ==
    inputTokens * inCost + outputTokens * outCost

\* The body of the loop over the models found, for the n-th of them.
ModelEstimate(m, questionCount, rows) ==
    LET jobCount == questionCount
        estimatedInputTokens == jobCount * AVG_INPUT_TOKENS_PER_QUESTION
        estimatedOutputTokens == jobCount * AVG_OUTPUT_TOKENS_PER_QUESTION
    IN [modelTargetId |-> m,
        jobCount |-> jobCount,
        estimatedInputTokens |-> estimatedInputTokens,
        estimatedOutputTokens |-> estimatedOutputTokens,
        estimatedCostUsd |->
            calculateModelCostUsd(estimatedInputTokens, estimatedOutputTokens,
                                  rows[m].in, rows[m].out)]

\* for (const model of modelTargets), from the n-th row on, with the
\* totals and the per-model list so far.
RECURSIVE EstimateLoop(_, _, _, _, _)
EstimateLoop(found, n, questionCount, rows, acc) ==
    IF n > Len(found) THEN acc
    ELSE LET e == ModelEstimate(found[n], questionCount, rows)
         IN EstimateLoop(found, n + 1, questionCount, rows,
              [perModel |-> Append(acc.perModel, e),
               totalInputTokens |-> acc.totalInputTokens + e.estimatedInputTokens,
               totalOutputTokens |-> acc.totalOutputTokens + e.estimatedOutputTokens,
               totalCostUsd |-> acc.totalCostUsd + e.estimatedCostUsd,
               totalJobs |-> acc.totalJobs + e.jobCount])

estimateRun(ids, questionCount, rows) ==
    LET found == FindMany(ids, rows)
        acc == EstimateLoop(found, 1, questionCount, rows,
                 [perModel |-> <<>>, totalInputTokens |-> 0,
                  totalOutputTokens |-> 0, totalCostUsd |-> 0, totalJobs |-> 0])
    IN [totalQuestions |-> questionCount,
        totalModels |-> Len(found),
        totalJobs |-> acc.totalJobs,
        estimatedInputTokens |-> acc.totalInputTokens,
        estimatedOutputTokens |-> acc.totalOutputTokens,
        estimatedTotalTokens |-> acc.totalInputTokens + acc.totalOutputTokens,
        estimatedCostUsd |-> acc.totalCostUsd,
        perModel |-> acc.perModel]

\* -------------------------------------------------------- startRunAction

\* A limit test that looks at the tokens only.
OverLimitTokensOnly(est) == est.estimatedTotalTokens > maxTokens

\* Step 2: the two tests that make startRunAction return an error.
OverLimit(est) ==
    \/ est.estimatedTotalTokens > maxTokens
    \/ est.estimatedCostUsd > maxCostUsd

\* Steps 1 and 2: estimateRun, then the limits; over a limit the action
\* returns an error.
StartEstimate ==
    /\ spc = "estimate"
    /\ LET est == estimateRun(modelTargetIds, Len(questions), modelTargets)
       IN /\ estimate' = est
          /\ spc' = IF OverLimit(est) THEN "rejected" ELSE "create"
    /\ UNCHANGED <<dbVars, workerVars, handlerVars, kpc, xpc, exports,
                   historyVars, noteVars, inputVars, threadVars, shutVars,
                   allocVars, modelTargets, maxTokens, maxCostUsd, runModels>>
    /\ UNCHANGED libVars
    /\ UNCHANGED viewVars

\* Steps 3 to 5: surveyRun.create with status DRAFT (then the RunModel rows
\* and the allocation, which touch no job and no run status).
StartCreateRun ==
    /\ spc = "create"
    /\ runStatus' = "DRAFT"
    /\ runModels' = Len(modelTargetIds)
    /\ spc' = "jobs"
    /\ UNCHANGED <<jobStatus, attempt, createdAt, clock, responses, allocated, workerVars,
                   handlerVars, kpc, xpc, exports, historyVars>>
    /\ UNCHANGED noteVars
    /\ UNCHANGED inputVars
    /\ UNCHANGED threadVars
    /\ UNCHANGED shutVars
    /\ UNCHANGED allocVars
    /\ UNCHANGED <<modelTargets, maxTokens, maxCostUsd, estimate>>
    /\ UNCHANGED libVars
    /\ UNCHANGED viewVars

\* Step 6: one transaction creates every allocated job PENDING.
StartCreateJobs ==
    /\ spc = "jobs"
    /\ jobStatus' = [j \in JobIds |->
                       IF j \in 1..allocated THEN "PENDING" ELSE jobStatus[j]]
    /\ createdAt' = [j \in JobIds |->
                       IF j \in 1..allocated THEN clock + 1 ELSE createdAt[j]]
    /\ clock' = clock + 1
    /\ spc' = "queue"
    /\ UNCHANGED <<runStatus, attempt, responses, allocated, workerVars, handlerVars, kpc,
                   xpc, exports, historyVars>>
    /\ UNCHANGED noteVars
    /\ UNCHANGED inputVars
    /\ UNCHANGED threadVars
    /\ UNCHANGED shutVars
    /\ UNCHANGED allocVars
    /\ UNCHANGED estVars
    /\ UNCHANGED libVars
    /\ UNCHANGED viewVars

\* Step 8: surveyRun.update by id to QUEUED.
StartSetQueued ==
    /\ spc = "queue"
    /\ runStatus' = "QUEUED"
    /\ spc' = "done"
    /\ UNCHANGED <<jobStatus, attempt, createdAt, clock, responses, allocated, workerVars,
                   handlerVars, kpc, xpc, exports, historyVars>>
    /\ UNCHANGED noteVars
    /\ UNCHANGED inputVars
    /\ UNCHANGED threadVars
    /\ UNCHANGED shutVars
    /\ UNCHANGED allocVars
    /\ UNCHANGED estVars
    /\ UNCHANGED libVars
    /\ UNCHANGED viewVars

\* -------------------------------------------------------- cancelRunAction

\* loadRunWithAccessCheck and the status test; a run that is neither QUEUED
\* nor RUNNING makes the action return an error, having changed nothing.
CancelLoad ==
    /\ kpc = "idle"
    /\ runStatus = "QUEUED" \/ runStatus = "RUNNING"
    /\ kpc' = "run"
    /\ UNCHANGED <<dbVars, workerVars, handlerVars, spc, xpc, exports,
                   historyVars>>
    /\ UNCHANGED noteVars
    /\ UNCHANGED inputVars
    /\ UNCHANGED threadVars
    /\ UNCHANGED shutVars
    /\ UNCHANGED allocVars
    /\ UNCHANGED estVars
    /\ UNCHANGED libVars
    /\ UNCHANGED viewVars

\* 1. surveyRun.update by id to CANCELLED.
CancelUpdateRun ==
    /\ kpc = "run"
    /\ runStatus' = "CANCELLED"
    /\ kpc' = "jobs"
    /\ UNCHANGED <<jobStatus, attempt, createdAt, clock, responses, allocated, workerVars,
                   handlerVars, spc, xpc, exports, historyVars>>
    /\ UNCHANGED noteVars
    /\ UNCHANGED inputVars
    /\ UNCHANGED threadVars
    /\ UNCHANGED shutVars
    /\ UNCHANGED allocVars
    /\ UNCHANGED estVars
    /\ UNCHANGED libVars
    /\ UNCHANGED viewVars

\* 2. job.updateMany: every PENDING or RETRYING job of the run, of any
\* type, becomes CANCELLED.
CancelUpdateJobs ==
    /\ kpc = "jobs"
    /\ jobStatus' = [j \in JobIds |->
                       IF jobStatus[j] \in {"PENDING", "RETRYING"}
                       THEN "CANCELLED" ELSE jobStatus[j]]
    /\ kpc' = "idle"
    /\ UNCHANGED <<runStatus, attempt, createdAt, clock, responses, allocated, workerVars,
                   handlerVars, spc, xpc, exports, historyVars>>
    /\ UNCHANGED noteVars
    /\ UNCHANGED inputVars
    /\ UNCHANGED threadVars
    /\ UNCHANGED shutVars
    /\ UNCHANGED allocVars
    /\ UNCHANGED estVars
    /\ UNCHANGED libVars
    /\ UNCHANGED viewVars

\* -------------------------------------------------------- exportRunAction

\* loadRunWithAccessCheck and the status test: only a COMPLETED run is
\* exported; otherwise the action returns an error, having changed nothing.
ExportLoad ==
    /\ xpc = "idle"
    /\ exports < MaxExports
    /\ runStatus = "COMPLETED"
    /\ xpc' = "enqueue"
    /\ UNCHANGED <<dbVars, workerVars, handlerVars, spc, kpc, exports,
                   historyVars>>
    /\ UNCHANGED noteVars
    /\ UNCHANGED inputVars
    /\ UNCHANGED threadVars
    /\ UNCHANGED shutVars
    /\ UNCHANGED allocVars
    /\ UNCHANGED estVars
    /\ UNCHANGED libVars
    /\ UNCHANGED viewVars

\* enqueueExportJob inserts the PENDING export job.
ExportEnqueue ==
    /\ xpc = "enqueue"
    /\ jobStatus' = [jobStatus EXCEPT ![ExportJobId(exports + 1)] = "PENDING"]
    /\ createdAt' = [createdAt EXCEPT ![ExportJobId(exports + 1)] = clock + 1]
    /\ clock' = clock + 1
    /\ exports' = exports + 1
    /\ xpc' = "idle"
    /\ UNCHANGED <<runStatus, attempt, responses, allocated, workerVars, handlerVars, spc,
                   kpc, historyVars>>
    /\ UNCHANGED noteVars
    /\ UNCHANGED inputVars
    /\ UNCHANGED threadVars
    /\ UNCHANGED shutVars
    /\ UNCHANGED allocVars
    /\ UNCHANGED estVars
    /\ UNCHANGED libVars
    /\ UNCHANGED viewVars

\* ---------------------------------------------------------- specification

ClaimStep(w) == ClaimUpdate(w) \/ ClaimRefetch(w)

CheckStep(j) ==
    CheckIncomplete(j) \/ CheckCounts(j) \/ CheckRun(j) \/ CheckWrite(j)

ExecStep(j) ==
    \/ ExecSucceed(j) \/ ExecProviderFails(j) \/ ExecEnqueue(j) \/ ExecCatch(j)
    \/ CheckStep(j)

\* ----------------------------------------------------------- allocateJobs

\* Step 3: the defaults that are not null, then the overrides on top.  A
\* key is "absent" when there is no row, or no override, for it.
variableMap(rows, overrides) ==
    [k \in {k \in VariableKeys : \/ overrides[k] # "absent"
                                  \/ rows[k] \notin {"absent", "null"}} |->
        IF overrides[k] # "absent" THEN overrides[k] ELSE rows[k]]

\* Each {{key}} whose key the map has is replaced by its value, the others
\* are left as they are.
substituteVariables(template, vmap) ==
    [i \in 1..Len(template) |->
        IF template[i].ph /\ template[i].s \in DOMAIN vmap
        THEN Text(vmap[template[i].s])
        ELSE template[i]]

\* `${runId}-${modelTargetId}-${question.threadKey || question.id}` for a
\* THREADED question, `${runId}-${modelTargetId}-${question.id}` otherwise.
ThreadKeyOf(m, q) ==
    IF q.mode = "THREADED"
    THEN RunId \o <<"-">> \o m \o <<"-">> \o
         (IF q.threadKey # <<>> THEN q.threadKey ELSE q.id)
    ELSE RunId \o <<"-">> \o m \o <<"-">> \o q.id

\* `${runId}:${modelTargetId}:${question.id}`
IdempotencyKeyOf(m, q) == RunId \o <<":">> \o m \o <<":">> \o q.id

\* The body of the inner loop: one AllocationJob.
AllocationJob(m, q, vmap) ==
    [modelTargetId |-> m,
     questionId |-> q.id,
     threadKey |-> ThreadKeyOf(m, q),
     idempotencyKey |-> IdempotencyKeyOf(m, q),
     type |-> "EXECUTE_QUESTION",
     renderedPrompt |-> substituteVariables(q.promptTemplate, vmap),
     questionMode |-> q.mode]

\* for (const question of questions), from the i-th question on.
RECURSIVE QuestionLoop(_, _, _, _)
QuestionLoop(m, qs, i, vmap) ==
    IF i > Len(qs) THEN <<>>
    ELSE <<AllocationJob(m, qs[i], vmap)>> \o QuestionLoop(m, qs, i + 1, vmap)

\* for (const modelTargetId of modelTargetIds), from the n-th model on.
RECURSIVE ModelLoop(_, _, _, _)
ModelLoop(ms, n, qs, vmap) ==
    IF n > Len(ms) THEN <<>>
    ELSE QuestionLoop(ms[n], qs, 1, vmap) \o ModelLoop(ms, n + 1, qs, vmap)

\* The double loop the other way round: questions outer, models inner.
allocateJobsQuestionsOuter(ms, qs, rows, overrides) ==
    [k \in 1..(Len(ms) * Len(qs)) |->
        AllocationJob(ms[((k - 1) % Len(ms)) + 1],
                      qs[((k - 1) \div Len(ms)) + 1],
                      variableMap(rows, overrides))]

\* allocateJobs: the jobs of the result.
allocateJobs(ms, qs, rows, overrides) ==
    ModelLoop(ms, 1, qs, variableMap(rows, overrides))

\* One call of allocateJobs returns.
Allocate(c) ==
    /\ c \notin called
    /\ called' = called \cup {c}
    /\ allocation' = [allocation EXCEPT ![c] =
                        allocateJobs(modelTargetIds, questions, surveyVariables,
                                     variableOverrides)]
    /\ UNCHANGED <<dbVars, workerVars, handlerVars, actionVars, historyVars,
                   noteVars, inputVars, threadVars, shutVars, modelTargetIds,
                   questions, surveyVariables, variableOverrides, estVars>>
    /\ UNCHANGED libVars
    /\ UNCHANGED viewVars

\* ------------------------------------------------------------- clampScore

\* A score is a number with a fractional part: it is held as its numerator
\* over ScoreDenominator.  Math.round(x) is floor(x + 0.5).
ScoreDenominator == 2 * HalfSteps
MathRoundTowardZero(n) ==
    IF n >= 0 THEN n \div ScoreDenominator
    ELSE -((-n) \div ScoreDenominator)
MathRound(n) == (2 * n + ScoreDenominator) \div (2 * ScoreDenominator)
MathMin(a, b) == IF a < b THEN a ELSE b
MathMax(a, b) == IF a > b THEN a ELSE b

clampScore(score, min, max) ==
    LET rounded == MathRound(score)
    IN MathMax(min, MathMin(max, rounded))

\* A call of clampScore returns.
Clamp ==
    /\ ~clampOut.done
    /\ clampOut' = [done |-> TRUE,
                    value |-> clampScore(clampIn.score, clampIn.min, clampIn.max)]
    /\ UNCHANGED <<dbVars, workerVars, handlerVars, actionVars, historyVars,
                   noteVars, inputVars, threadVars, shutVars, allocVars,
                   estVars, viewVars>>
    /\ UNCHANGED <<clampIn, substIn, substOut, repairIn, repairOut>>

\* ----------------------------------------------------- substituteVariables

\* Strings are sequences of characters.  PLACEHOLDER_REGEX is
\* /\{\{([a-zA-Z_][a-zA-Z0-9_]*)\}\}/g.
Letters == {"a", "b", "c", "g", "i", "n", "o", "r", "s", "t", "u",
            "H", "S", "X"}
Digits == {"1"}
IdentStart == Letters \cup {"_"}
IdentChars == IdentStart \cup Digits

\* [a-zA-Z0-9_]* from position i: the position after the longest run.
RECURSIVE IdentRun(_, _)
IdentRun(t, i) ==
    IF i <= Len(t) /\ t[i] \in IdentChars THEN IdentRun(t, i + 1) ELSE i

\* The position of the last character of the match of PLACEHOLDER_REGEX
\* that starts at position i, 0 when there is none.
MatchAt(t, i) ==
    IF /\ i + 2 <= Len(t)
       /\ t[i] = "{"
       /\ t[i + 1] = "{"
       /\ t[i + 2] \in IdentStart
    THEN LET e == IdentRun(t, i + 3)
         IN IF e + 1 <= Len(t) /\ t[e] = "}" /\ t[e + 1] = "}"
            THEN e + 1
            ELSE 0
    ELSE 0

\* A variables object is a function from its own keys to their values.
\* Every object inherits the properties of Object.prototype.
KeyToString == <<"t", "o", "S", "t", "r", "i", "n", "g">>
KeyConstructor == <<"c", "o", "n", "s", "t", "r", "u", "c", "t", "o", "r">>
ObjectPrototype == {KeyToString, KeyConstructor}
\* What a template literal makes of an inherited function.
NativeCode == <<"f", "n">>

\* `key in variables`: own and inherited properties alike.
HasProperty(variables, key) ==
    key \in DOMAIN variables \/ key \in ObjectPrototype
\* Object.hasOwn(variables, key).
HasOwn(variables, key) == key \in DOMAIN variables
\* variables[key]: the own property, else the inherited one.
Get(variables, key) ==
    IF key \in DOMAIN variables THEN variables[key] ELSE NativeCode

\* Set.add on a set listed in insertion order.
SetAdd(set, x) ==
    IF \E i \in 1..Len(set) : set[i] = x THEN set ELSE Append(set, x)

\* template.replace(PLACEHOLDER_REGEX, callback): the matches are found
\* from left to right, each search resuming after the last match, and the
\* text the callback returns is not searched again.
RECURSIVE templateReplace(_, _, _, _)
templateReplace(template, i, variables, acc) ==
    IF i > Len(template) THEN acc
    ELSE LET e == MatchAt(template, i)
         IN IF e = 0
            THEN templateReplace(template, i + 1, variables,
                     [acc EXCEPT !.result = @ \o <<template[i]>>])
            ELSE LET match == SubSeq(template, i, e)
                     key == SubSeq(template, i + 2, e - 2)
                 IN IF HasOwn(variables, key)
                    THEN templateReplace(template, e + 1, variables,
                             [acc EXCEPT !.result = @ \o Get(variables, key)])
                    ELSE templateReplace(template, e + 1, variables,
                             [result |-> acc.result \o match,
                              unresolvedSet |-> SetAdd(acc.unresolvedSet, key)])

\* The characters of a template given as pieces.
PieceChars(piece) ==
    IF piece.ph THEN <<"{", "{">> \o piece.s \o <<"}", "}">> ELSE piece.s
RECURSIVE TemplateChars(_)
TemplateChars(parts) ==
    IF parts = <<>> THEN <<>>
    ELSE PieceChars(Head(parts)) \o TemplateChars(Tail(parts))

\* A call of substituteVariables returns.
Substitute ==
    /\ ~substOut.done
    /\ LET r == templateReplace(TemplateChars(substIn.parts), 1,
                                substIn.variables,
                                [result |-> <<>>, unresolvedSet |-> <<>>])
       IN substOut' = [done |-> TRUE, result |-> r.result,
                       unresolved |-> r.unresolvedSet]
    /\ UNCHANGED <<dbVars, workerVars, handlerVars, actionVars, historyVars,
                   noteVars, inputVars, threadVars, shutVars, allocVars,
                   estVars, viewVars>>
    /\ UNCHANGED <<clampIn, clampOut, substIn, repairIn, repairOut>>

\* ------------------------------------------------------ repairAndParseJson

\* Characters that have no plain spelling are named: LF is the line feed,
\* LDQ and RDQ are U+201C and U+201D, LSQ and RSQ are U+2018 and U+2019,
\* BQ is the backtick and SQ the apostrophe.
DQ == "\""
WhiteSpace == {" ", "LF"}
RECURSIVE SkipWs(_, _)
SkipWs(t, i) ==
    IF i <= Len(t) /\ t[i] \in WhiteSpace THEN SkipWs(t, i + 1) ELSE i

\* JSON values: strings, arrays and objects (an object is the list of its
\* members, key and value, as written).
Undefined == [t |-> "undefined", v |-> <<>>]
Str(chars) == [t |-> "str", v |-> chars]
Arr(elements) == [t |-> "arr", v |-> elements]
Obj(members) == [t |-> "obj", v |-> members]
ParseFail == [ok |-> FALSE, val |-> Undefined, pos |-> 0]

\* The position of the quote that closes a string whose content starts at
\* i, 0 when the string is not closed on its line.
RECURSIVE StringEnd(_, _)
StringEnd(t, i) ==
    IF i > Len(t) THEN 0
    ELSE IF t[i] = DQ THEN i
    ELSE IF t[i] = "LF" THEN 0
    ELSE StringEnd(t, i + 1)

\* t[i] is an opening quote.
ParseString(t, i) ==
    LET e == StringEnd(t, i + 1)
    IN IF e = 0 THEN ParseFail
       ELSE [ok |-> TRUE, val |-> Str(SubSeq(t, i + 1, e - 1)), pos |-> e + 1]

RECURSIVE ParseValue(_, _)
RECURSIVE ParseMembers(_, _, _)
RECURSIVE ParseElements(_, _, _)
ParseValue(t, i) ==
    LET j == SkipWs(t, i)
    IN IF j > Len(t) THEN ParseFail
       ELSE IF t[j] = DQ THEN ParseString(t, j)
       ELSE IF t[j] = "{"
       THEN LET k == SkipWs(t, j + 1)
            IN IF k <= Len(t) /\ t[k] = "}"
               THEN [ok |-> TRUE, val |-> Obj(<<>>), pos |-> k + 1]
               ELSE ParseMembers(t, k, <<>>)
       ELSE IF t[j] = "["
       THEN LET k == SkipWs(t, j + 1)
            IN IF k <= Len(t) /\ t[k] = "]"
               THEN [ok |-> TRUE, val |-> Arr(<<>>), pos |-> k + 1]
               ELSE ParseElements(t, k, <<>>)
       ELSE ParseFail
ParseMembers(t, i, acc) ==
    IF i > Len(t) \/ t[i] # DQ THEN ParseFail
    ELSE LET k == ParseString(t, i)
         IN IF ~k.ok THEN ParseFail
            ELSE LET c == SkipWs(t, k.pos)
                 IN IF c > Len(t) \/ t[c] # ":" THEN ParseFail
                    ELSE LET v == ParseValue(t, c + 1)
                         IN IF ~v.ok THEN ParseFail
                            ELSE LET n == SkipWs(t, v.pos)
                                     more == Append(acc, <<k.val.v, v.val>>)
                                 IN IF n > Len(t) THEN ParseFail
                                    ELSE IF t[n] = ","
                                    THEN ParseMembers(t, SkipWs(t, n + 1), more)
                                    ELSE IF t[n] = "}"
                                    THEN [ok |-> TRUE, val |-> Obj(more),
                                          pos |-> n + 1]
                                    ELSE ParseFail
ParseElements(t, i, acc) ==
    LET v == ParseValue(t, i)
    IN IF ~v.ok THEN ParseFail
       ELSE LET n == SkipWs(t, v.pos)
                more == Append(acc, v.val)
            IN IF n > Len(t) THEN ParseFail
               ELSE IF t[n] = "," THEN ParseElements(t, n + 1, more)
               ELSE IF t[n] = "]"
               THEN [ok |-> TRUE, val |-> Arr(more), pos |-> n + 1]
               ELSE ParseFail

\* JSON.parse: the value, when the whole text is one value.
JSONparse(text) ==
    LET r == ParseValue(text, 1)
    IN IF r.ok /\ SkipWs(text, r.pos) > Len(text) THEN r ELSE ParseFail

\* The property of an object: of members with one key the last counts.
RECURSIVE Lookup(_, _)
Lookup(members, key) ==
    IF members = <<>> THEN Undefined
    ELSE IF members[Len(members)][1] = key THEN members[Len(members)][2]
    ELSE Lookup(SubSeq(members, 1, Len(members) - 1), key)

KeyAnswerText == <<"a", "n", "s", "w", "e", "r", "T", "e", "x", "t">>
KeyCitations == <<"c", "i", "t", "a", "t", "i", "o", "n", "s">>
KeyNotes == <<"n", "o", "t", "e", "s">>
KeyUrl == <<"u", "r", "l">>
KeyTitle == <<"t", "i", "t", "l", "e">>
KeySnippet == <<"s", "n", "i", "p", "p", "e", "t">>

OptionalString(value) == value.t \in {"str", "undefined"}
citationSchema(value) ==
    /\ value.t = "obj"
    /\ Lookup(value.v, KeyUrl).t = "str"
    /\ OptionalString(Lookup(value.v, KeyTitle))
    /\ OptionalString(Lookup(value.v, KeySnippet))
llmResponseSchema(value) ==
    /\ value.t = "obj"
    /\ Lookup(value.v, KeyAnswerText).t = "str"
    /\ Lookup(value.v, KeyCitations).t = "arr"
    /\ \A i \in 1..Len(Lookup(value.v, KeyCitations).v) :
          citationSchema(Lookup(value.v, KeyCitations).v[i])
    /\ OptionalString(Lookup(value.v, KeyNotes))

\* result.data: the fields the schema names.
CitationData(value) ==
    [url |-> Lookup(value.v, KeyUrl).v,
     title |-> Lookup(value.v, KeyTitle),
     snippet |-> Lookup(value.v, KeySnippet)]
ResponseData(value) ==
    [answerText |-> Lookup(value.v, KeyAnswerText).v,
     citations |-> [i \in 1..Len(Lookup(value.v, KeyCitations).v) |->
                      CitationData(Lookup(value.v, KeyCitations).v[i])],
     notes |-> Lookup(value.v, KeyNotes)]

tryParseAndValidate(text) ==
    LET r == JSONparse(text)
    IN IF ~r.ok THEN [parsed |-> <<>>, error |-> "JSON parse error"]
       ELSE IF llmResponseSchema(r.val)
       THEN [parsed |-> <<ResponseData(r.val)>>, error |-> "undefined"]
       ELSE [parsed |-> <<>>, error |-> "Validation error"]

\* The position of the first ``` at or after i, 0 when there is none.
RECURSIVE FindFence(_, _)
FindFence(t, i) ==
    IF i + 2 > Len(t) THEN 0
    ELSE IF t[i] = "BQ" /\ t[i + 1] = "BQ" /\ t[i + 2] = "BQ" THEN i
    ELSE FindFence(t, i + 1)
\* String.prototype.trim.
RECURSIVE TrimEnd(_)
TrimEnd(t) ==
    IF t # <<>> /\ t[Len(t)] \in WhiteSpace
    THEN TrimEnd(SubSeq(t, 1, Len(t) - 1))
    ELSE t
Trim(t) == TrimEnd(SubSeq(t, SkipWs(t, 1), Len(t)))
LangJson == <<"j", "s", "o", "n">>

\* fenceRegex matches from the first ``` that has another ``` after it; the
\* group is what lies between them, less the language tag json.
stripMarkdownFences(text) ==
    LET open == FindFence(text, 1)
        close == IF open = 0 THEN 0 ELSE FindFence(text, open + 3)
        tagged == /\ open + 6 < close
                  /\ SubSeq(text, open + 3, open + 6) = LangJson
        start == IF tagged THEN open + 7 ELSE open + 3
    IN IF close = 0 THEN text
       ELSE Trim(SubSeq(text, start, close - 1))

RECURSIVE IndexOf(_, _, _)
IndexOf(t, ch, i) ==
    IF i > Len(t) THEN 0
    ELSE IF t[i] = ch THEN i
    ELSE IndexOf(t, ch, i + 1)
RECURSIVE LastIndexOf(_, _, _)
LastIndexOf(t, ch, i) ==
    IF i < 1 THEN 0
    ELSE IF t[i] = ch THEN i
    ELSE LastIndexOf(t, ch, i - 1)
extractJsonObject(text) ==
    LET firstBrace == IndexOf(text, "{", 1)
        lastBrace == LastIndexOf(text, "}", Len(text))
    IN IF firstBrace = 0 \/ lastBrace = 0 \/ lastBrace <= firstBrace
       THEN <<>>
       ELSE SubSeq(text, firstBrace, lastBrace)

normalizeSmartQuotes(text) ==
    [i \in 1..Len(text) |->
        IF text[i] \in {"LDQ", "RDQ"} THEN DQ
        ELSE IF text[i] \in {"LSQ", "RSQ"} THEN "SQ"
        ELSE text[i]]

\* text.replace(/,\s*([}\]])/g, "$1").
RECURSIVE removeTrailingCommasFrom(_, _)
removeTrailingCommasFrom(text, i) ==
    IF i > Len(text) THEN <<>>
    ELSE LET n == SkipWs(text, i + 1)
         IN IF text[i] = "," /\ n <= Len(text) /\ text[n] \in {"}", "]"}
            THEN <<text[n]>> \o removeTrailingCommasFrom(text, n + 1)
            ELSE <<text[i]>> \o removeTrailingCommasFrom(text, i + 1)
removeTrailingCommas(text) == removeTrailingCommasFrom(text, 1)

\* repairAndParseJson on a text given character by character.
repairAndParse(raw) ==
    LET directResult == tryParseAndValidate(raw)
        text == extractJsonObject(stripMarkdownFences(raw))
        repairedResult ==
            tryParseAndValidate(removeTrailingCommas(normalizeSmartQuotes(text)))
    IN IF directResult.parsed # <<>> THEN directResult
       ELSE IF text = <<>>
       THEN [parsed |-> <<>>, error |-> "No JSON object found in input"]
       ELSE repairedResult

\* The JSON text of a payload.  The style gives the quotation marks that
\* open and close a string and the place of a trailing comma, if any.
Quoted(chars, style) == <<style.open>> \o chars \o <<style.close>>
Member(key, chars, style) ==
    Quoted(key, style) \o <<":">> \o Quoted(chars, style)
RECURSIVE CitationsText(_, _)
CitationsText(citations, style) ==
    IF citations = <<>> THEN <<>>
    ELSE <<"{">> \o Member(KeyUrl, Head(citations), style) \o <<"}">> \o
         (IF Len(citations) > 1 THEN <<",">> ELSE <<>>) \o
         CitationsText(Tail(citations), style)
PayloadText(payload, style) ==
    <<"{">> \o Member(KeyAnswerText, payload.answerText, style) \o <<",">> \o
    Quoted(KeyCitations, style) \o <<":", "[">> \o
    CitationsText(payload.citations, style) \o
    (IF style.comma = "bracket" THEN <<",">> ELSE <<>>) \o <<"]">> \o
    (IF payload.notes # <<>>
     THEN <<",">> \o Member(KeyNotes, payload.notes[1], style) ELSE <<>>) \o
    (IF style.comma = "brace" THEN <<",", "LF">> ELSE <<>>) \o <<"}">>
Fenced(text, tagged) ==
    <<"BQ", "BQ", "BQ">> \o (IF tagged THEN LangJson ELSE <<>>) \o <<"LF">> \o
    text \o <<"LF", "BQ", "BQ", "BQ">>
CleanStyle == [open |-> DQ, close |-> DQ, comma |-> "none"]
CleanText(in) == PayloadText(in.payload, CleanStyle)
WrappedText(in) ==
    Fenced(PayloadText(in.payload,
                       [open |-> "LDQ", close |-> "RDQ", comma |-> in.comma]),
           in.tagged)
RawText(in, c) == IF c = "clean" THEN CleanText(in) ELSE WrappedText(in)

\* A call of repairAndParseJson returns.
Repair(c) ==
    /\ repairIn # <<>>
    /\ repairOut[c] = NotCalled
    /\ repairOut' = [repairOut EXCEPT ![c] = repairAndParse(RawText(repairIn, c))]
    /\ UNCHANGED <<dbVars, workerVars, handlerVars, actionVars, historyVars,
                   noteVars, inputVars, threadVars, shutVars, allocVars,
                   estVars, viewVars>>
    /\ UNCHANGED <<clampIn, clampOut, substIn, substOut, repairIn>>

\* ---------------------------------------------- GET /api/runs/[runId]/events

\* The counts of an event and the job statuses each one counts; total
\* counts the EXECUTE_QUESTION rows of the run whatever their status.
CountFields == {"total", "completed", "failed", "running"}
CountedStatuses(field) ==
    IF field = "total" THEN JobStatus
    ELSE IF field = "completed" THEN {"SUCCEEDED"}
    ELSE IF field = "failed" THEN {"FAILED"}
    ELSE {"RUNNING"}

SnapUnchanged ==
    /\ UNCHANGED <<dbVars, workerVars, handlerVars, actionVars, historyVars,
                   noteVars, inputVars, threadVars, shutVars, allocVars,
                   estVars, libVars, sent>>

\* GET: the run exists, the stream is created and poll starts.
StreamOpen ==
    /\ snapshot.pc = "closed"
    /\ runStatus # "NONE"
    /\ snapshot' = [pc |-> "status", read |-> {}, event |-> NoEvent]
    /\ SnapUnchanged

\* poll: surveyRun.findUnique of the run's status.
SnapStatus ==
    /\ snapshot.pc = "status"
    /\ snapshot' = [pc |-> "counts", read |-> {},
                    event |-> [NoEvent EXCEPT !.status = runStatus]]
    /\ SnapUnchanged

\* One of the four job.count queries of Promise.all is answered; they are
\* separate statements and are answered in any order.
SnapCount(field) ==
    /\ snapshot.pc = "counts"
    /\ field \notin snapshot.read
    /\ snapshot' = [snapshot EXCEPT
                      !.read = @ \cup {field},
                      !.event[field] = CountExec(CountedStatuses(field))]
    /\ SnapUnchanged

\* sendEvent, once the four counts are there.
SnapSend ==
    /\ snapshot.pc = "counts"
    /\ snapshot.read = CountFields
    /\ snapshot' = [snapshot EXCEPT !.pc = "sent"]
    /\ SnapUnchanged

\* After the event: the stream is closed when the status read is terminal,
\* else poll sleeps and starts over.
SnapNext ==
    /\ snapshot.pc = "sent"
    /\ snapshot' = [snapshot EXCEPT
                      !.pc = IF snapshot.event.status \in TerminalRunStatus
                             THEN "closed" ELSE "status"]
    /\ SnapUnchanged

SnapStep ==
    \/ StreamOpen
    \/ SnapStatus
    \/ \E field \in CountFields : SnapCount(field)
    \/ SnapSend
    \/ SnapNext

\* --------------------------------------------------------------- shutdown

\* The claimJob calls still to come in the iteration of pollLoop that is
\* under way when the signal handler runs.  In the middle of a claim they
\* are the calls for the later types.  Otherwise the loop is in the
\* findFirst of some call, with that call and the later ones to come, or in
\* its sleep, with none.
CallsToCome(w) ==
    IF wpc[w] = "select"
    THEN {LaterTypes(JobTypes[i]) : i \in 1..Len(JobTypes)}
         \cup {{JobTypes[i] : i \in 1..Len(JobTypes)}}
    ELSE {LaterTypes(jobType(wsel[w]))}

\* shutdown up to its first await: running = false, the deadline is set,
\* and the while test is made once; with no active job the loop is skipped
\* and prisma.$disconnect() is called.
Signal(w) ==
    /\ shpc[w] = "run"
    /\ running' = [running EXCEPT ![w] = FALSE]
    /\ \E calls \in CallsToCome(w) : wleft' = [wleft EXCEPT ![w] = calls]
    /\ shpc' = [shpc EXCEPT ![w] = IF activeJobs[w] = {} THEN "disconnect"
                                   ELSE "wait"]
    /\ UNCHANGED <<dbVars, workerVars, handlerVars, actionVars, historyVars,
                   noteVars, inputVars, threadVars, expired, allocVars,
                   estVars>>
    /\ UNCHANGED libVars
    /\ UNCHANGED viewVars

\* Thirty seconds have passed since the signal.
DeadlinePasses(w) ==
    /\ shpc[w] \in {"wait", "disconnect"}
    /\ ~expired[w]
    /\ expired' = [expired EXCEPT ![w] = TRUE]
    /\ UNCHANGED <<dbVars, workerVars, handlerVars, actionVars, historyVars,
                   noteVars, inputVars, threadVars, running, shpc, wleft,
                   allocVars, estVars>>
    /\ UNCHANGED libVars
    /\ UNCHANGED viewVars

\* shutdown's while test after a sleep of one second, when it ends the
\* loop: no active job, or the deadline reached.
ShutdownWait(w) ==
    /\ shpc[w] = "wait"
    /\ activeJobs[w] = {} \/ expired[w]
    /\ shpc' = [shpc EXCEPT ![w] = "disconnect"]
    /\ UNCHANGED <<dbVars, workerVars, handlerVars, actionVars, historyVars,
                   noteVars, inputVars, threadVars, running, expired, wleft,
                   allocVars, estVars>>
    /\ UNCHANGED libVars
    /\ UNCHANGED viewVars

\* prisma.$disconnect() has resolved: process.exit(0).
ShutdownExit(w) ==
    /\ shpc[w] = "disconnect"
    /\ shpc' = [shpc EXCEPT ![w] = "exited"]
    /\ UNCHANGED <<dbVars, workerVars, handlerVars, actionVars, historyVars,
                   noteVars, inputVars, threadVars, running, expired, wleft,
                   allocVars, estVars>>
    /\ UNCHANGED libVars
    /\ UNCHANGED viewVars

ShutdownStep(w) ==
    Signal(w) \/ DeadlinePasses(w) \/ ShutdownWait(w) \/ ShutdownExit(w)

\* The process has not exited.
Alive(w) == shpc[w] # "exited"

\* The process that runs the handler of job j has not exited.
HandlerAlive(j) == \A w \in Workers : TrackingKey(j) \in activeJobs[w] => Alive(w)

ThreadStep(j) ==
    ExecRespond(j) \/ ExecThreadRead(j) \/ ExecThreadWrite(j) \/ ExecMark(j)

StartStep == StartCreateRun \/ StartCreateJobs \/ StartSetQueued
CancelStep == CancelLoad \/ CancelUpdateRun \/ CancelUpdateJobs
ExportStep == ExportLoad \/ ExportEnqueue

\* The run and its execution jobs: the follow-on analysis jobs are enqueued
\* but no worker gets to them, and no export is requested.
NextRun ==
    \/ \E w \in Workers : ClaimSelect(w, "EXECUTE_QUESTION")
    \/ \E w \in Workers : ClaimStep(w)
    \/ \E j \in JobIds : ExecStep(j)
    \/ \E j \in JobIds : ProcessJobCatch(j)
    \/ StartStep
    \/ CancelStep

\* The three job types and the three server actions, STATELESS questions.
NextJobs ==
    \/ NextRun
    \/ \E w \in Workers : ClaimSelect(w, "ANALYZE_RESPONSE")
    \/ \E w \in Workers : ClaimSelect(w, "EXPORT_RUN")
    \/ \E j \in JobIds : AnalyzeSucceed(j) \/ AnalyzeCatch(j)
    \/ \E j \in JobIds : ExportRun(j)
    \/ ExportStep

\* Everything.
Next ==
    \/ NextJobs
    \/ \E j \in JobIds : ThreadStep(j)
    \/ \E w \in Workers : ShutdownStep(w)
    \/ \E c \in Calls : Allocate(c)
    \/ StartEstimate
    \/ Clamp
    \/ Substitute
    \/ \E c \in RepairCalls : Repair(c)
    \/ SnapStep

\* A run of one STATELESS question.
InitOneJob == Init /\ allocated = 1 /\ threaded = {}

\* A run of open-ended STATELESS questions.
InitRun == Init /\ rankedNoReasoning = {} /\ threaded = {}

Spec == Init /\ [][Next]_vars
SpecRun == InitRun /\ [][NextRun]_vars
SpecJobs == InitOneJob /\ [][NextJobs]_vars

\* The job store as worker processes find it when exportRunAction has been
\* accepted NumExportJobs times for a COMPLETED run of one question: the
\* run's jobs are finished and the export jobs are PENDING, oldest first.
InitExports ==
    /\ runStatus = "COMPLETED"
    /\ allocated = 1
    /\ rankedNoReasoning = {}
    /\ threaded = {}
    /\ thread = <<>>
    /\ tread = [j \in JobIds |-> <<>>]
    /\ jobStatus = [j \in JobIds |->
                      IF j \in ExportJobs THEN "PENDING"
                      ELSE IF j \in {1, AnalyzeJobOf(1)} THEN "SUCCEEDED"
                      ELSE "NONE"]
    /\ attempt = [j \in JobIds |-> IF j \in {1, AnalyzeJobOf(1)} THEN 1 ELSE 0]
    /\ createdAt = [j \in JobIds |->
                      IF j \in ExportJobs THEN 2 + (j - 2 * NumExecRows)
                      ELSE IF j = 1 THEN 1
                      ELSE IF j = AnalyzeJobOf(1) THEN 2
                      ELSE 0]
    /\ clock = 2 + NumExportJobs
    /\ responses = {1}
    /\ activeJobs = [w \in Workers |-> {}]
    /\ wpc = [w \in Workers |-> "select"]
    /\ wsel = [w \in Workers |-> 0]
    /\ hpc = [j \in JobIds |-> IF j \in {1, AnalyzeJobOf(1)} THEN "done" ELSE "idle"]
    /\ hphase = [j \in JobIds |-> "try"]
    /\ cFailed = [j \in JobIds |-> 0]
    /\ cTotal = [j \in JobIds |-> 0]
    /\ spc = "done"
    /\ kpc = "idle"
    /\ xpc = "idle"
    /\ exports = NumExportJobs
    /\ arbiterWrites = 1
    /\ lastError = [j \in JobIds |-> "null"]
    /\ rawText = [j \in JobIds |-> IF j = 1 THEN "valid" ELSE "none"]
    /\ parsedJson = [j \in JobIds |-> IF j = 1 THEN "object" ELSE "none"]
    /\ herr = [j \in JobIds |-> "none"]
    /\ running = [w \in Workers |-> TRUE]
    /\ shpc = [w \in Workers |-> "run"]
    /\ expired = [w \in Workers |-> FALSE]
    /\ wleft = [w \in Workers |-> {}]
    /\ AllocIdle
    /\ EstIdle
    /\ LibIdle
    /\ ViewIdle

\* The worker processes on export jobs alone.
NextExports ==
    \/ \E w \in Workers : ClaimSelect(w, "EXPORT_RUN")
    \/ \E w \in Workers : ClaimStep(w)
    \/ \E j \in JobIds : ExportRun(j)
    \/ \E j \in JobIds : ProcessJobCatch(j)

SpecExports == InitExports /\ [][NextExports]_vars

\* A run of NumExecRows THREADED open-ended questions of one thread group
\* and one model, when the first question's job has run to its end alone:
\* the job is SUCCEEDED, its response, its two messages and its analysis
\* job are stored, and the other jobs are PENDING.
InitThread ==
    /\ runStatus = "QUEUED"
    /\ allocated = NumExecRows
    /\ rankedNoReasoning = {}
    /\ threaded = ExecJobs
    /\ thread = NewMessages(1)
    /\ tread = [j \in JobIds |-> <<>>]
    /\ jobStatus = [j \in JobIds |-> IF j = 1 THEN "SUCCEEDED"
                                     ELSE IF j \in ExecJobs \cup {AnalyzeJobOf(1)}
                                     THEN "PENDING" ELSE "NONE"]
    /\ attempt = [j \in JobIds |-> IF j = 1 THEN 1 ELSE 0]
    /\ createdAt = [j \in JobIds |-> IF j \in ExecJobs THEN 1
                                     ELSE IF j = AnalyzeJobOf(1) THEN 2 ELSE 0]
    /\ clock = 2
    /\ responses = {1}
    /\ activeJobs = [w \in Workers |-> {}]
    /\ wpc = [w \in Workers |-> "select"]
    /\ wsel = [w \in Workers |-> 0]
    /\ hpc = [j \in JobIds |-> IF j = 1 THEN "done" ELSE "idle"]
    /\ hphase = [j \in JobIds |-> "try"]
    /\ cFailed = [j \in JobIds |-> 0]
    /\ cTotal = [j \in JobIds |-> 0]
    /\ spc = "done"
    /\ kpc = "idle"
    /\ xpc = "idle"
    /\ exports = 0
    /\ arbiterWrites = 0
    /\ lastError = [j \in JobIds |-> "null"]
    /\ rawText = [j \in JobIds |-> IF j = 1 THEN "valid" ELSE "none"]
    /\ parsedJson = [j \in JobIds |-> IF j = 1 THEN "object" ELSE "none"]
    /\ herr = [j \in JobIds |-> "none"]
    /\ running = [w \in Workers |-> TRUE]
    /\ shpc = [w \in Workers |-> "run"]
    /\ expired = [w \in Workers |-> FALSE]
    /\ wleft = [w \in Workers |-> {}]
    /\ AllocIdle
    /\ EstIdle
    /\ LibIdle
    /\ snapshot = NoStream
    /\ sent = [j \in JobIds |-> IF j = 1 THEN Messages(1, <<>>) ELSE <<>>]

\* The worker processes on the execution jobs of a threaded run.
NextThread ==
    \/ \E w \in Workers : ClaimSelect(w, "EXECUTE_QUESTION")
    \/ \E w \in Workers : ClaimStep(w)
    \/ \E j \in JobIds : ThreadStep(j)
    \/ \E j \in JobIds : \/ ExecProviderFails(j) \/ ExecEnqueue(j) \/ ExecCatch(j)
                           \/ CheckStep(j)
    \/ \E j \in JobIds : ProcessJobCatch(j)

SpecThread == InitThread /\ [][NextThread]_vars

\* Worker processes that may receive SIGTERM or SIGINT, on a run of one
\* STATELESS question.  A process that has exited takes no step.
NextShutdown ==
    \/ StartStep
    \/ \E w \in Workers : Alive(w) /\ ClaimSelect(w, "EXECUTE_QUESTION")
    \/ \E w \in Workers : Alive(w) /\ ClaimSelect(w, "ANALYZE_RESPONSE")
    \/ \E w \in Workers : Alive(w) /\ ClaimStep(w)
    \/ \E j \in JobIds : HandlerAlive(j) /\ ExecStep(j)
    \/ \E j \in JobIds : HandlerAlive(j) /\ (AnalyzeSucceed(j) \/ AnalyzeCatch(j))
    \/ \E j \in JobIds : HandlerAlive(j) /\ ProcessJobCatch(j)
    \/ \E w \in Workers : ShutdownStep(w)

SpecShutdown == InitOneJob /\ [][NextShutdown]_vars

\* Two independent calls of allocateJobs with the same parameters, on the
\* same questions and variables, before anything else has happened.
InitAlloc ==
    /\ runStatus = "NONE"
    /\ jobStatus = [j \in JobIds |-> "NONE"]
    /\ attempt = [j \in JobIds |-> 0]
    /\ createdAt = [j \in JobIds |-> 0]
    /\ clock = 0
    /\ responses = {}
    /\ allocated = 1
    /\ rankedNoReasoning = {}
    /\ threaded = {}
    /\ thread = <<>>
    /\ tread = [j \in JobIds |-> <<>>]
    /\ activeJobs = [w \in Workers |-> {}]
    /\ wpc = [w \in Workers |-> "select"]
    /\ wsel = [w \in Workers |-> 0]
    /\ hpc = [j \in JobIds |-> "idle"]
    /\ hphase = [j \in JobIds |-> "try"]
    /\ cFailed = [j \in JobIds |-> 0]
    /\ cTotal = [j \in JobIds |-> 0]
    /\ spc = "create"
    /\ kpc = "idle"
    /\ xpc = "idle"
    /\ exports = 0
    /\ arbiterWrites = 0
    /\ lastError = [j \in JobIds |-> "null"]
    /\ rawText = [j \in JobIds |-> "none"]
    /\ parsedJson = [j \in JobIds |-> "none"]
    /\ herr = [j \in JobIds |-> "none"]
    /\ running = [w \in Workers |-> TRUE]
    /\ shpc = [w \in Workers |-> "run"]
    /\ expired = [w \in Workers |-> FALSE]
    /\ wleft = [w \in Workers |-> {}]
    /\ modelTargetIds \in ModelLists
    /\ questions \in QuestionLists
    /\ surveyVariables \in [VariableKeys -> {"absent", "null", "d"}]
    /\ variableOverrides \in [VariableKeys -> {"absent", "o"}]
    /\ allocation = [c \in Calls |-> <<>>]
    /\ called = {}
    /\ EstIdle
    /\ LibIdle
    /\ ViewIdle

NextAlloc == \E c \in Calls : Allocate(c)

SpecAlloc == InitAlloc /\ [][NextAlloc]_vars

\* The questions of a survey in the order of their ids.
QuestionIndex == << <<"p">>, <<"q">> >>
\* A survey of n STATELESS questions without variables.
PlainQuestions(n) ==
    [i \in 1..n |-> [id |-> QuestionIndex[i], order |-> i - 1,
                     mode |-> "STATELESS", threadKey |-> <<>>,
                     promptTemplate |-> <<Text("Hi")>>]]

\* startRunAction is called: any models selected, any ModelTarget rows and
\* prices, token and cost ceilings from the environment.  The run's jobs
\* are one for each model id given and question.
InitSubmit ==
    /\ modelTargetIds \in ModelLists
    /\ questions \in {PlainQuestions(n) : n \in 0..Len(QuestionIndex)}
    /\ Len(modelTargetIds) * Len(questions) <= NumExecRows
    /\ allocated = Len(modelTargetIds) * Len(questions)
    /\ rankedNoReasoning = {}
    /\ threaded = {}
    /\ surveyVariables = [k \in VariableKeys |-> "absent"]
    /\ variableOverrides = [k \in VariableKeys |-> "absent"]
    /\ allocation = [c \in Calls |-> <<>>]
    /\ called = {}
    /\ modelTargets \in ModelTargetRows
    /\ maxTokens \in {3000, 1000000}
    /\ maxCostUsd \in {100000, 5000000}
    /\ estimate = NoEstimate
    /\ runModels = 0
    /\ LibIdle
    /\ ViewIdle
    /\ spc = "estimate"
    /\ runStatus = "NONE"
    /\ jobStatus = [j \in JobIds |-> "NONE"]
    /\ attempt = [j \in JobIds |-> 0]
    /\ createdAt = [j \in JobIds |-> 0]
    /\ clock = 0
    /\ responses = {}
    /\ thread = <<>>
    /\ tread = [j \in JobIds |-> <<>>]
    /\ activeJobs = [w \in Workers |-> {}]
    /\ wpc = [w \in Workers |-> "select"]
    /\ wsel = [w \in Workers |-> 0]
    /\ hpc = [j \in JobIds |-> "idle"]
    /\ hphase = [j \in JobIds |-> "try"]
    /\ cFailed = [j \in JobIds |-> 0]
    /\ cTotal = [j \in JobIds |-> 0]
    /\ kpc = "idle"
    /\ xpc = "idle"
    /\ exports = 0
    /\ arbiterWrites = 0
    /\ lastError = [j \in JobIds |-> "null"]
    /\ rawText = [j \in JobIds |-> "none"]
    /\ parsedJson = [j \in JobIds |-> "none"]
    /\ herr = [j \in JobIds |-> "none"]
    /\ running = [w \in Workers |-> TRUE]
    /\ shpc = [w \in Workers |-> "run"]
    /\ expired = [w \in Workers |-> FALSE]
    /\ wleft = [w \in Workers |-> {}]

NextSubmit == StartEstimate \/ StartStep

SpecSubmit == InitSubmit /\ [][NextSubmit]_vars

\* A library function is called on its own: no run is under way.
InitLibrary ==
    /\ InitSystem
    /\ allocated = 1
    /\ rankedNoReasoning = {}
    /\ threaded = {}

\* clampScore is called with any score from below the scale to above it, in
\* steps of 1/ScoreDenominator, and any integer bounds min <= max.
Scores == (-ScoreMargin * ScoreDenominator) ..
          ((MaxScale + ScoreMargin) * ScoreDenominator)
ScaleBounds == (-ScoreMargin) .. MaxScale
InitClamp ==
    /\ InitLibrary
    /\ SubstIdle
    /\ RepairIdle
    /\ clampIn \in {a \in [score : Scores, min : ScaleBounds, max : ScaleBounds] :
                        a.min <= a.max}
    /\ clampOut = [done |-> FALSE, value |-> 0]
NextClamp == Clamp
SpecClamp == InitClamp /\ [][NextClamp]_vars

\* substituteVariables is called with any template of up to MaxPieces
\* pieces: placeholders, text, lone braces, and double braces around what
\* is no key.  The variables object has any own entries under the keys a,
\* b and toString; a value may be empty and may read like a placeholder.
PlaceholderKeys == {<<"a">>, <<"b">>, KeyToString, KeyConstructor}
TextPieces ==
    {<<"H", "i", " ">>, <<"{">>, <<"}">>,
     <<"{", "{", " ", "a", "}", "}">>,
     <<"{", "{", "1", "a", "}", "}">>}
Pieces == {Placeholder(k) : k \in PlaceholderKeys} \cup
          {Text(t) : t \in TextPieces}
PieceLists == UNION {[1..n -> Pieces] : n \in 0..MaxPieces}
OwnKeys == {<<"a">>, <<"b">>, KeyToString}
Values == {<<>>, <<"X">>, <<"{", "{", "b", "}", "}">>}
VariableMaps == UNION {[D -> Values] : D \in SUBSET OwnKeys}
InitSubst ==
    /\ InitLibrary
    /\ ClampIdle
    /\ RepairIdle
    /\ substIn \in [parts : PieceLists, variables : VariableMaps]
    /\ substOut = [done |-> FALSE, result |-> <<>>, unresolved |-> <<>>]
NextSubst == Substitute
SpecSubst == InitSubst /\ [][NextSubst]_vars

\* repairAndParseJson is called on a payload of the response schema, clean
\* and wrapped: an answer, up to MaxCitations citations, notes or none.  The
\* answer is any of a few texts, with and without punctuation.
PlainContents == {<<"H", "i">>, <<"x", " ", "y">>}
Contents ==
    PlainContents \cup
    {<<"x", "RSQ", "s">>, <<"LDQ", "x", "RDQ">>, <<"x", ",", "}">>,
     <<"x", ",", " ", "]">>, <<"BQ", "BQ", "BQ">>}
Urls == {<<"u">>}
Payloads ==
    [answerText : Contents,
     citations : UNION {[1..n -> Urls] : n \in 0..MaxCitations},
     notes : {<<>>, << <<"H", "i">> >>}]
RepairInputs ==
    {in \in [payload : Payloads, tagged : BOOLEAN, comma : {"brace", "bracket"}] :
        in.comma = "bracket" => in.payload.citations # <<>>}
InitRepair ==
    /\ InitLibrary
    /\ ClampIdle
    /\ SubstIdle
    /\ repairIn \in RepairInputs
    /\ repairOut = [c \in RepairCalls |-> NotCalled]
NextRepair == \E c \in RepairCalls : Repair(c)
SpecRepair == InitRepair /\ [][NextRepair]_vars

\* A progress stream on a run of STATELESS questions while the worker
\* processes execute its jobs.
NextView ==
    \/ StartStep
    \/ \E w \in Workers : ClaimSelect(w, "EXECUTE_QUESTION")
    \/ \E w \in Workers : ClaimStep(w)
    \/ \E j \in JobIds : ExecStep(j)
    \/ \E j \in JobIds : ProcessJobCatch(j)
    \/ SnapStep
SpecView == InitOneJob /\ [][NextView]_vars

\* Scheduling: the event loop of a live worker process runs every
\* continuation that is ready, and the server runs startRunAction to its end.
\* Nothing makes a user cancel or export.
FairSpecRun ==
    /\ SpecRun
    /\ WF_vars(StartStep)
    /\ \A w \in Workers : WF_vars(ClaimSelect(w, "EXECUTE_QUESTION") \/ ClaimStep(w))
    /\ \A j \in ExecJobs : WF_vars(ExecStep(j) \/ ProcessJobCatch(j))

\* Scheduling where processes may be signalled: a process that has not
\* exited keeps polling and runs the continuations of its handlers; nothing
\* makes a signal arrive or a deadline pass.
FairSpecShutdown ==
    /\ SpecShutdown
    /\ WF_vars(StartStep)
    /\ \A w \in Workers :
          WF_vars(Alive(w) /\ (ClaimSelect(w, "EXECUTE_QUESTION") \/ ClaimStep(w)))
    /\ \A j \in ExecJobs :
          WF_vars(HandlerAlive(j) /\ (ExecStep(j) \/ ProcessJobCatch(j)))

\* ------------------------------------------------------------- properties

\* A claimJob call of worker w runs its conditional update in this step.
UpdateRuns(w) == wpc[w] = "update" /\ wpc'[w] # "update"

\* processJob is started for the job worker w claimed, in this step.
ProcessJobStarts(w) == wpc[w] = "refetch" /\ wpc'[w] = "select"

C2_NoDoubleProcessing ==
    [][/\ \A j \in JobIds : attempt'[j] <= 1
       /\ \A w \in Workers :
            ProcessJobStarts(w) =>
              /\ hpc[wsel[w]] = "idle"
              /\ attempt[wsel[w]] = 1
              /\ TrackingKey(wsel[w]) \notin activeJobs[w]]_vars

\* C2 witness: a job of each type has been claimed and processed to the end.
C2_Witness ==
    /\ \E j \in ExecJobs : hpc[j] = "done" /\ attempt[j] = 1
    /\ \E j \in AnalyzeJobs : hpc[j] = "done" /\ attempt[j] = 1
    /\ \E j \in ExportJobs : hpc[j] = "done" /\ attempt[j] = 1

\* C3: once the run is COMPLETED, FAILED or CANCELLED its status never
\* changes again.
C3_TerminalRunStatusFinal ==
    [][(runStatus \in TerminalRunStatus) => (runStatus' = runStatus)]_vars

\* C4: the completion check writes the run's status and completion
\* timestamp at most once per run.
C4_ArbiterWritesOnce == arbiterWrites <= 1

\* Every execution job of the run has reached SUCCEEDED or FAILED.
AllExecFinished ==
    /\ spc \in {"queue", "done"}
    /\ \A j \in 1..allocated : jobStatus[j] \in {"SUCCEEDED", "FAILED"}

\* cancelRunAction was accepted for the run.
CancelRequested == kpc # "idle" \/ runStatus = "CANCELLED"

\* C5: once every execution job of a run that is not cancelled has reached
\* SUCCEEDED or FAILED, the run eventually becomes COMPLETED or FAILED.
C5_RunEventuallyResolved ==
    AllExecFinished ~> (runStatus \in {"COMPLETED", "FAILED"} \/ CancelRequested)

\* The completion check of job j writes the run row in this step.
ArbiterWrites(j) == hpc[j] = "chk_write" /\ hpc'[j] # "chk_write"

\* C6: when the completion check resolves a QUEUED or RUNNING run, it writes
\* FAILED if every execution job of the run is FAILED and COMPLETED
\* otherwise.
C6_ArbiterOutcome ==
    [][\A j \in ExecJobs :
         ArbiterWrites(j) /\ runStatus \in {"QUEUED", "RUNNING"} =>
           runStatus' = (IF \A k \in 1..allocated : jobStatus[k] = "FAILED"
                         THEN "FAILED" ELSE "COMPLETED")]_vars

\* C7: a run that is COMPLETED or FAILED has no execution job PENDING,
\* RUNNING or RETRYING.
C7_ResolvedRunHasNoOpenJob ==
    runStatus \in {"COMPLETED", "FAILED"} =>
      \A j \in ExecJobs : jobStatus[j] \notin {"PENDING", "RUNNING", "RETRYING"}

\* C7 witness: a run of two jobs is COMPLETED with one job SUCCEEDED and the
\* other FAILED.
C7_Witness ==
    /\ runStatus = "COMPLETED"
    /\ \E j \in ExecJobs : jobStatus[j] = "SUCCEEDED"
    /\ \E j \in ExecJobs : jobStatus[j] = "FAILED"

\* C8: cancellation is one atomic step.  A CANCELLED run has no PENDING
\* execution job, and no job of a CANCELLED run goes from PENDING to RUNNING.
C8_CancelAtomic ==
    [][/\ runStatus' = "CANCELLED" =>
            \A j \in ExecJobs : jobStatus'[j] # "PENDING"
       /\ runStatus = "CANCELLED" =>
            \A j \in JobIds :
                ~(jobStatus[j] = "PENDING" /\ jobStatus'[j] = "RUNNING")]_vars

\* The status changes C9 allows ("NONE" to PENDING is the row's creation).
JobTransitions ==
    {<<"NONE", "PENDING">>, <<"PENDING", "RUNNING">>, <<"PENDING", "CANCELLED">>,
     <<"RUNNING", "SUCCEEDED">>, <<"RUNNING", "FAILED">>}

\* C9: a job's status changes only from PENDING to RUNNING or CANCELLED and
\* from RUNNING to SUCCEEDED or FAILED; a terminal status never changes.
C9_JobLifecycle ==
    [][\A j \in JobIds :
         jobStatus'[j] # jobStatus[j] =>
           <<jobStatus[j], jobStatus'[j]>> \in JobTransitions]_vars

\* C10: once processJob has finished for a claimed job, of any type, the
\* job is SUCCEEDED or FAILED.
C10_FinishedJobIsTerminal ==
    \A j \in JobIds : hpc[j] = "done" => jobStatus[j] \in {"SUCCEEDED", "FAILED"}

\* The jobs of a type that worker w has claimed and whose processJob has not
\* finished: those in its active set and the one claimJob is returning.
InFlight(w, type) ==
    ActiveOfType(w, type)
      + (IF wpc[w] = "refetch" /\ jobType(wsel[w]) = type THEN 1 ELSE 0)

\* C11: in every state and for each worker process, the jobs of a type the
\* worker has claimed and not finished number at most the type's cap: 5 for
\* EXECUTE_QUESTION, 10 for ANALYZE_RESPONSE, 2 for EXPORT_RUN.
C11_ConcurrencyCaps ==
    \A w \in Workers :
        /\ InFlight(w, "EXECUTE_QUESTION") <= EXECUTE_CONCURRENCY
        /\ InFlight(w, "ANALYZE_RESPONSE") <= ANALYZE_CONCURRENCY
        /\ InFlight(w, "EXPORT_RUN") <= EXPORT_CONCURRENCY

\* C11 witness: a worker runs as many export handlers as the cap allows
\* while a further export job is PENDING, which only the other worker is
\* selecting.
C11_Witness ==
    \E w \in Workers :
        /\ ActiveOfType(w, "EXPORT_RUN") = EXPORT_CONCURRENCY
        /\ wpc[w] = "select"
        /\ \E j \in ExportJobs : jobStatus[j] = "PENDING"

\* What holds of execution job j from the moment its provider call failed.
ProviderFailed(j) ==
    herr[j] = "provider" =>
      /\ j \notin responses
      /\ jobStatus[AnalyzeJobOf(j)] = "NONE"
      /\ \/ hpc[j] = "e_catch"
         \/ jobStatus[j] = "FAILED" /\ lastError[j] = "provider"

\* C12: when the provider call of an execution job fails, the job becomes
\* and stays FAILED with the provider's message as lastError, no LlmResponse
\* and no analysis job exist for it, and the handler's catch block goes on
\* to checkRunCompletion.
C12_ProviderFailurePath ==
    [][\A j \in ExecJobs :
         /\ ProviderFailed(j)'
         /\ (herr[j] = "provider" /\ hpc[j] = "e_catch" /\ hpc'[j] # "e_catch")
              => hpc'[j] = "chk_incomplete"]_vars

\* C12 witness: a job whose provider call failed has been processed to the
\* end and its completion check has resolved the run.
C12_Witness ==
    \E j \in ExecJobs :
        /\ herr[j] = "provider"
        /\ hpc[j] = "done"
        /\ runStatus = "FAILED"

\* C13: an execution job whose provider reply cannot be repaired into the
\* schema ends SUCCEEDED, with an LlmResponse holding the raw text and a
\* null parsed payload, and with the parse error as the job's lastError.
C13_ParseErrorNotFatal ==
    \A j \in ExecJobs :
        (rawText[j] = "broken" /\ hpc[j] = "done") =>
          /\ jobStatus[j] = "SUCCEEDED"
          /\ j \in responses
          /\ parsedJson[j] = "JsonNull"
          /\ lastError[j] = "parse"

\* C14: a successful execution job has created exactly one analysis job for
\* its LlmResponse, unless its question is ranked with reasoning disabled,
\* in which case it has created none.
C14_AnalysisJobPerResponse ==
    \A j \in ExecJobs :
        (hpc[j] = "done" /\ jobStatus[j] = "SUCCEEDED") =>
          /\ j \in responses
          /\ IF j \in rankedNoReasoning
             THEN jobStatus[AnalyzeJobOf(j)] = "NONE"
             ELSE jobStatus[AnalyzeJobOf(j)] # "NONE"

\* C15: a claimed analysis job whose processJob has finished is SUCCEEDED,
\* never FAILED.
C15_AnalysisAlwaysSucceeds ==
    \A j \in AnalyzeJobs : hpc[j] = "done" => jobStatus[j] = "SUCCEEDED"

\* s is an initial part of t.
IsPrefix(s, t) == Len(s) <= Len(t) /\ SubSeq(t, 1, Len(s)) = s

\* No handler of a threaded job is under way.
ThreadAtRest == \A j \in threaded : hpc[j] \in {"idle", "done"}

\* The threaded jobs that succeeded.
ThreadedSucceeded == {j \in threaded : jobStatus[j] = "SUCCEEDED"}

\* C16: the stored thread only grows at its end, and when no threaded
\* handler is under way it holds two messages for each threaded job that
\* succeeded, alternating user and assistant.
C16_ThreadAppendOnly ==
    [][/\ IsPrefix(thread, thread')
       /\ ThreadAtRest' =>
            /\ Len(thread') = 2 * Cardinality(ThreadedSucceeded')
            /\ \A i \in 1..Len(thread') :
                 thread'[i][1] = (IF i % 2 = 1 THEN "user" ELSE "assistant")]_vars

\* The step is a successful claim by process w: its updateMany counted 1.
ClaimSucceeds(w) == wpc[w] = "update" /\ wpc'[w] = "refetch"

\* The jobs process w has claimed and not finished: those whose handler it
\* runs and the one its claimJob is returning.
ClaimedUnfinished(w) ==
    {j \in JobIds : \/ TrackingKey(j) \in activeJobs[w]
                    \/ wpc[w] = "refetch" /\ wsel[w] = j}

\* The step is the exit of process w.
Exits(w) == shpc[w] # "exited" /\ shpc'[w] = "exited"

\* C17: after the signal a process makes no successful claim, and it exits
\* only when every job it has claimed has finished or the deadline of
\* thirty seconds has passed.
C17_GracefulShutdown ==
    [][\A w \in Workers :
         /\ ClaimSucceeds(w) => running[w]
         /\ Exits(w) => (ClaimedUnfinished(w) = {} \/ expired[w])]_vars

\* The row of the question with the given id among the questions loaded.
QuestionOf(id) ==
    CHOOSE q \in {questions[i] : i \in 1..Len(questions)} : q.id = id

\* Jobs i and k of a result are in the block of one pass of the outer loop.
SameBlock(i, k) ==
    (i - 1) \div Len(questions) = (k - 1) \div Len(questions)

C19_UniqueIdempotencyKeys ==
    \A c \in called :
        LET jobs == allocation[c]
        IN /\ Len(jobs) = Len(modelTargetIds) * Len(questions)
           /\ \A i, k \in 1..Len(jobs) :
                 i # k => jobs[i].idempotencyKey # jobs[k].idempotencyKey
           /\ \A n \in 1..Len(modelTargetIds), m \in 1..Len(questions) :
                 Cardinality({k \in 1..Len(jobs) :
                                /\ jobs[k].modelTargetId = modelTargetIds[n]
                                /\ jobs[k].questionId = questions[m].id}) = 1

\* The thread group a job's question declares; <<>> when it declares none.
DeclaredGroup(job) == QuestionOf(job.questionId).threadKey

\* Jobs i and k are of THREADED questions that declare one thread group.
SameThreadGroup(jobs, i, k) ==
    /\ jobs[i].questionMode = "THREADED"
    /\ jobs[k].questionMode = "THREADED"
    /\ DeclaredGroup(jobs[i]) # <<>>
    /\ DeclaredGroup(jobs[i]) = DeclaredGroup(jobs[k])

\* C20: in one allocation the thread key of a stateless job differs from
\* that of every other job; two threaded questions of one declared thread
\* group have one thread key under one model, and different thread keys
\* under different models.
C20_ThreadKeyPartition ==
    \A c \in called :
        LET jobs == allocation[c]
        IN \A i, k \in 1..Len(jobs) :
             /\ (i # k /\ jobs[i].questionMode = "STATELESS")
                   => jobs[i].threadKey # jobs[k].threadKey
             /\ (SameThreadGroup(jobs, i, k)
                  /\ jobs[i].modelTargetId = jobs[k].modelTargetId)
                   => jobs[i].threadKey = jobs[k].threadKey
             /\ (SameThreadGroup(jobs, i, k)
                  /\ jobs[i].modelTargetId # jobs[k].modelTargetId)
                   => jobs[i].threadKey # jobs[k].threadKey

\* The run has a job row.
RunHasJobs == \E j \in ExecJobs : jobStatus[j] # "NONE"

EstimatedModels ==
    {m \in ModelIds : /\ modelTargets[m].exists
                      /\ \E i \in 1..Len(modelTargetIds) : modelTargetIds[i] = m}

\* The sum of a field over the per-model estimates.
RECURSIVE SumField(_, _)
SumField(es, field) ==
    IF es = <<>> THEN 0 ELSE Head(es)[field] + SumField(Tail(es), field)

\* C22: each model of the estimate has a job count equal to the question
\* count, 500 input and 1000 output tokens per job, and the cost
\* inputTokens x inputPrice / 1e6 + outputTokens x outputPrice / 1e6; the
\* totals of the run are the sums of the per-model values.
C22_EstimateArithmetic ==
    spc # "estimate" =>
      LET per == estimate.perModel
      IN /\ {per[i].modelTargetId : i \in 1..Len(per)} = EstimatedModels
         /\ Len(per) = Cardinality(EstimatedModels)
         /\ \A i \in 1..Len(per) :
              /\ per[i].jobCount = Len(questions)
              /\ per[i].estimatedInputTokens = 500 * per[i].jobCount
              /\ per[i].estimatedOutputTokens = 1000 * per[i].jobCount
              /\ per[i].estimatedCostUsd =
                    per[i].estimatedInputTokens * modelTargets[per[i].modelTargetId].in
                    + per[i].estimatedOutputTokens * modelTargets[per[i].modelTargetId].out
         /\ estimate.totalJobs = SumField(per, "jobCount")
         /\ estimate.estimatedInputTokens = SumField(per, "estimatedInputTokens")
         /\ estimate.estimatedOutputTokens = SumField(per, "estimatedOutputTokens")
         /\ estimate.estimatedTotalTokens =
              SumField(per, "estimatedInputTokens") + SumField(per, "estimatedOutputTokens")
         /\ estimate.estimatedCostUsd = SumField(per, "estimatedCostUsd")

\* An estimate for two models of different prices and two questions.
C22_Witness ==
    /\ spc # "estimate"
    /\ Len(estimate.perModel) = 2
    /\ estimate.perModel[1].estimatedCostUsd # estimate.perModel[2].estimatedCostUsd
    /\ estimate.totalQuestions = 1
    /\ estimate.estimatedTotalTokens = 3000

\* C23: clampScore returns the score rounded to the nearest integer, halves
\* rounded up, then saturated at the bounds: the result is an integer in
\* [min, max], min when the rounded score is below min, max when it is above
\* max, and the rounded score otherwise.
C23_ClampScore ==
    clampOut.done =>
        \E r \in (-ScoreMargin - 1) .. (MaxScale + ScoreMargin + 1) :
            \* r - 1/2 <= score < r + 1/2
            /\ ScoreDenominator * (2 * r - 1) <= 2 * clampIn.score
            /\ 2 * clampIn.score < ScoreDenominator * (2 * r + 1)
            /\ clampOut.value \in clampIn.min .. clampIn.max
            /\ clampOut.value = (IF r < clampIn.min THEN clampIn.min
                                 ELSE IF r > clampIn.max THEN clampIn.max
                                 ELSE r)

\* A score halfway between two integers of the scale was rounded up.
C23_Witness ==
    /\ clampOut.done
    /\ clampIn.score < 0
    /\ (2 * clampIn.score) % (2 * ScoreDenominator) = ScoreDenominator
    /\ clampIn.min * ScoreDenominator < clampIn.score
    /\ clampIn.score < clampIn.max * ScoreDenominator
    /\ clampOut.value * ScoreDenominator > clampIn.score

\* What the claim expects of one piece: the value for a placeholder whose
\* key is an own entry, the piece as it stands otherwise.
ExpectedPiece(piece, variables) ==
    IF piece.ph /\ piece.s \in DOMAIN variables
    THEN variables[piece.s]
    ELSE PieceChars(piece)
RECURSIVE ExpectedResult(_, _)
ExpectedResult(parts, variables) ==
    IF parts = <<>> THEN <<>>
    ELSE ExpectedPiece(Head(parts), variables) \o
         ExpectedResult(Tail(parts), variables)
ExpectedUnresolved(parts, variables) ==
    {parts[i].s : i \in {i \in 1..Len(parts) :
                            parts[i].ph /\ parts[i].s \notin DOMAIN variables}}

\* C24: substituteVariables replaces every {{key}} placeholder whose key is
\* an own entry of the map by the entry's value and leaves every other
\* placeholder as it is; unresolved is exactly the set of placeholder keys
\* with no own entry, each listed once, toString and constructor among
\* them unless the map has an entry of that name.
C24_SubstituteVariables ==
    substOut.done =>
        /\ substOut.result = ExpectedResult(substIn.parts, substIn.variables)
        /\ {substOut.unresolved[i] : i \in 1..Len(substOut.unresolved)} =
               ExpectedUnresolved(substIn.parts, substIn.variables)
        /\ \A i, k \in 1..Len(substOut.unresolved) :
               i # k => substOut.unresolved[i] # substOut.unresolved[k]

\* {{toString}} was left in place and reported where the map has no such
\* entry, next to a placeholder that was replaced.
C24_Witness ==
    /\ substOut.done
    /\ Len(substIn.parts) = 2
    /\ substIn.parts[1] = [ph |-> TRUE, s |-> <<"a">>]
    /\ substIn.parts[2] = [ph |-> TRUE, s |-> KeyToString]
    /\ DOMAIN substIn.variables = {<<"a">>}
    /\ substIn.variables[<<"a">>] = <<"X">>
    /\ substOut.result = <<"X", "{", "{">> \o KeyToString \o <<"}", "}">>
    /\ substOut.unresolved = <<KeyToString>>

BothCalled == \A c \in RepairCalls : repairOut[c] # NotCalled

\* C25: a clean payload of the response schema, and the same payload in
\* Markdown fences, with typographic quotation marks and a trailing comma
\* before a closing brace or bracket, are parsed by repairAndParseJson to
\* the same structured result.
C25_RepairRoundTrip ==
    BothCalled =>
        /\ repairOut["clean"].parsed # <<>>
        /\ repairOut["wrapped"].parsed = repairOut["clean"].parsed

\* The same, for payloads whose strings hold letters and spaces only.
RepairRoundTripPlain ==
    BothCalled /\ repairIn.payload.answerText \in PlainContents =>
        /\ repairOut["clean"].parsed # <<>>
        /\ repairOut["wrapped"].parsed = repairOut["clean"].parsed

\* The messages of a list.
Turns(messages) == {messages[i] : i \in 1..Len(messages)}

\* C26: of the execution jobs of one run, model and thread key no two are
\* RUNNING at the same time, and the messages a threaded job sent to the
\* provider hold the user and the assistant turn of every job of the thread
\* that precedes it in display order.
C26_ThreadSerialized ==
    /\ \A i, j \in threaded :
          i # j => ~(jobStatus[i] = "RUNNING" /\ jobStatus[j] = "RUNNING")
    /\ \A j \in threaded :
          sent[j] # <<>> =>
             \A i \in threaded :
                i < j => /\ <<"user", i>> \in Turns(sent[j])
                         /\ <<"assistant", i>> \in Turns(sent[j])

\* Job j is RUNNING and the process that claimed it has exited.
Abandoned(j) ==
    /\ jobStatus[j] = "RUNNING"
    /\ \E w \in Workers : ~Alive(w) /\ j \in ClaimedUnfinished(w)

\* C27: a job left RUNNING by a process that has exited is eventually
\* claimable again or finished, and its run is eventually resolved.
C27_AbandonedJobReclaimed ==
    \A j \in ExecJobs :
        Abandoned(j) ~> /\ jobStatus[j] \in {"PENDING", "SUCCEEDED", "FAILED"}
                        /\ <>(runStatus \in {"COMPLETED", "FAILED"})

\* The step is the end of processJob's catch block for job j.
CatchEnds(j) == hpc[j] = "pj_catch" /\ hpc'[j] # "pj_catch"

\* The exception stays in processJob: the finally block has run, the key
\* is in no active set, and no poll loop has moved.
ExceptionContained(j) ==
    CatchEnds(j) => /\ hpc'[j] = "done"
                    /\ \A w \in Workers : TrackingKey(j) \notin activeJobs'[w]
                    /\ wpc' = wpc
                    /\ wsel' = wsel

\* C28: when a handler throws, the exception does not leave processJob and
\* the poll loop goes on, the tracking key leaves the active set, and the
\* job is marked FAILED only if it was not in a terminal status already.
C28_HandlerFailureContained ==
    [][\A j \in JobIds :
         /\ ExceptionContained(j)
         /\ (jobStatus'[j] = "FAILED" /\ jobStatus[j] # "FAILED")
               => jobStatus[j] \notin {"SUCCEEDED", "CANCELLED"}]_vars

\* The run status changes of the claim; NONE is the run before its row.
RunTransitions ==
    {<<"NONE", "DRAFT">>, <<"DRAFT", "QUEUED">>, <<"QUEUED", "RUNNING">>,
     <<"RUNNING", "COMPLETED">>, <<"RUNNING", "FAILED">>,
     <<"QUEUED", "CANCELLED">>, <<"RUNNING", "CANCELLED">>}

\* An execution job of the run has been claimed.
SomeJobClaimed == \E j \in ExecJobs : attempt[j] > 0

\* C29: the run's status changes only along DRAFT, QUEUED, RUNNING, then
\* COMPLETED or FAILED, with CANCELLED from QUEUED or RUNNING only; a
\* QUEUED run of which a job has been claimed becomes RUNNING, and the
\* completion check resolves a run that is RUNNING.
C29_RunLifecycle ==
    [][/\ runStatus' # runStatus => <<runStatus, runStatus'>> \in RunTransitions
       /\ (runStatus = "QUEUED" /\ SomeJobClaimed /\ runStatus' # runStatus)
             => runStatus' \in {"RUNNING", "CANCELLED"}
       /\ (arbiterWrites' # arbiterWrites) => runStatus = "RUNNING"]_vars

\* The event the stream has just sent.
Emitted == snapshot.pc = "sent"

\* C30: the succeeded, failed and running counts of every event sent are
\* together at most its total, also when jobs change status between the
\* count queries; and no step of the stream changes a job or the run.
C30_SnapshotConsistent ==
    [][/\ Emitted' =>
            snapshot'.event.completed + snapshot'.event.failed
               + snapshot'.event.running <= snapshot'.event.total
       /\ snapshot' # snapshot =>
            /\ jobStatus' = jobStatus
            /\ runStatus' = runStatus]_vars

====
